---- MODULE Spec2Model ----
(***************************************************************************)
(* Model of the multi-strategy trading agent: MultiStrategyAgent           *)
(* (multi_strategy_agent.py), PortfolioManager (portfolio_manager.py),     *)
(* TradingEngine.calculate_position_size (trading_engine.py), the          *)
(* discovery call ResearchEngine.find_opportunities (research_engine.py)   *)
(* and the operator endpoints of WebDashboard (web_dashboard.py).          *)
(*                                                                         *)
(* Units.  The program computes in floating point; the model uses exact    *)
(* fixed point:                                                            *)
(*   money and prices                      cents                           *)
(*   risk_score, volatility                1/1000                          *)
(*   volume_ratio                          1/100                           *)
(*   market_cap                            millions (1000 = 1e9)           *)
(*   technical/sentiment/news score        1/100                           *)
(*   potential_return, score, thresholds   1/10000                         *)
(*   percentages (risk, stop loss, ...)    percent                         *)
(* The candidate universe below was chosen so that the floating-point      *)
(* results of the program coincide with the fixed-point ones.              *)
(***************************************************************************)
EXTENDS Integers, Sequences, FiniteSets, TLC

\* ------------------------------------------------------------------ bounds
MaxCycles == 2      \* cycles of the run loop that are explored
MaxCands  == 3      \* longest candidate list discovery returns

\* --------------------------------------------------------- configuration
\* Strategy names in configuration order (keys of config.yaml "strategies:").
StrategyOrder == <<"s1", "s2">>
Strategies == {StrategyOrder[i] : i \in 1..Len(StrategyOrder)}

\* create_strategy_config: the per-strategy settings.  s1 uses the defaults
\* of create_strategy_config except max_daily_trades; s2 overrides
\* max_daily_trades and max_daily_loss.
StrategyConfig ==
  [s1 |-> [account_balance |-> 1000000, risk_percentage |-> 2,
           max_position_size |-> 5, max_daily_trades |-> 1,
           max_daily_loss |-> 500, stop_loss_percentage |-> 3,
           take_profit_percentage |-> 6, min_score_threshold |-> 1000,
           max_risk_score |-> 800],
   s2 |-> [account_balance |-> 1000000, risk_percentage |-> 2,
           max_position_size |-> 5, max_daily_trades |-> 2,
           max_daily_loss |-> 900, stop_loss_percentage |-> 3,
           take_profit_percentage |-> 6, min_score_threshold |-> 1000,
           max_risk_score |-> 800]]

\* ------------------------------------------------------------ environment
Symbols == {"X", "Y", "Z"}

\* Raw candidates the discovery collaborator can report (research_stock).
Raw(sym, price, vol, vr, mc, tech, sent, news) ==
  [symbol |-> sym, current_price |-> price, volatility |-> vol,
   volume_ratio |-> vr, market_cap |-> mc, technical_score |-> tech,
   sentiment_score |-> sent, news_score |-> news]

Universe ==
  { Raw("X", 10000, 400, 100, 1000, 50, 10, 0),      \* risk .4  score .46
    Raw("Y", 5000, 1500, 100, 1000, 100, 50, 30),    \* risk 1.0 score .58
    Raw("Y", 5000, 800, 100, 1000, 50, 10, 0),       \* risk .8  score .2555
    Raw("Z", 40000, 400, 100, 1000, 50, 10, 0),      \* score .46, 0 shares
    Raw("Z", 0, 400, 100, 1000, 50, 10, 0) }         \* no price

\* Market quotes.  Cycles are a day apart and take seconds, so within one
\* cycle a symbol has one quote: the current_price discovery reported for it
\* or, for a symbol discovery did not report, one of Quotes.  A price lookup
\* (get_current_price) returns the quote, or 0 when it fails.
Quotes == {9700, 9701, 10600}

\* Balances an operator may set through /api/set-balance.
Balances == {5000}

\* ---------------------------------------------------------------- state
VARIABLES
  is_running,      \* MultiStrategyAgent.is_running
  pc,              \* position of the run loop
  cur,             \* index in StrategyOrder of the strategy being processed
  opportunities,   \* candidate list of the current cycle (shared objects)
  ranked,          \* ranked_opportunities[:max_trades] still to walk
  review,          \* symbols review_positions still has to visit
  trades_executed, \* local counter of execute_strategy_trades
  pm,              \* per strategy: the PortfolioManager fields (of a
                   \* strategy that is not loaded: never read or written)
  db,              \* per strategy: the SQLite file (tables present, trades)
  today,           \* the calendar date
  cycles,          \* number of cycles started
  market,          \* quotes of the current cycle, None where not yet known
  rollover,        \* history: the date changed after the previous cycle and
                   \* before the one in progress or about to start
  turn,            \* history: what the current strategy turn did so far
  strategies,      \* names of MultiStrategyAgent.strategies, in dict order
  research,        \* history: calls of find_opportunities, result of the last
  call             \* history: the last call made on a component in
                   \* isolation; in the run loop, the dashboard request
                   \* answered last during the current sleep of run()

vars == <<is_running, pc, cur, opportunities, ranked, review,
          trades_executed, pm, db, today, cycles, market, rollover, turn,
          strategies, research, call>>


\* -------------------------------------------------------------- helpers
None == -1          \* SQL NULL / Python None in a numeric column; no value

Min(a, b) == IF a <= b THEN a ELSE b
Max(a, b) == IF a >= b THEN a ELSE b

Range(f) == {f[i] : i \in DOMAIN f}

\* The positions dict (insertion ordered): a sequence of
\* [symbol, shares, avg_price, current_price, total_value, pnl, score,
\*  risk_score] with pairwise distinct symbols.
Keys(ps) == [i \in 1..Len(ps) |-> ps[i].symbol]

has_position(ps, sym) == \E i \in 1..Len(ps) : ps[i].symbol = sym

Get(ps, sym) == ps[CHOOSE i \in 1..Len(ps) : ps[i].symbol = sym]

\* positions[symbol] = rec: overwrite in place, or insert at the end
Put(ps, rec) ==
  IF has_position(ps, rec.symbol)
  THEN [i \in 1..Len(ps) |-> IF ps[i].symbol = rec.symbol THEN rec ELSE ps[i]]
  ELSE Append(ps, rec)

\* del positions[symbol]
Del(ps, sym) == SelectSeq(ps, LAMBDA r : r.symbol # sym)

\* ------------------------------------------------- 4.1 opportunity scorer
calculate_risk_score(o) ==
  LET volatility   == IF o.volatility = 0 THEN 200 ELSE o.volatility
      volume_ratio == IF o.volume_ratio = 0 THEN 100 ELSE o.volume_ratio
      market_cap   == IF o.market_cap = 0 THEN 1000 ELSE o.market_cap
      risk_score   == (volatility * 100 * 1000) \div (volume_ratio * market_cap)
  IN  Min(risk_score, 1000)

\* The same computation on magnitudes outside the fixed-point grid.  A
\* positive double is given by its decimal exponent (the value 10^e); a
\* product or quotient below the smallest subnormal (10^-324 and less) is 0.0
\* and one above the largest double (10^309 and more) is inf; 0.0 * inf is
\* nan.
Double(e) ==
  IF e < -323 THEN [k |-> "zero"]
  ELSE IF e > 308 THEN [k |-> "inf"]
  ELSE [k |-> "num", e |-> e]

DoubleMul(a, b) ==
  IF a.k = "nan" \/ b.k = "nan" THEN [k |-> "nan"]
  ELSE IF {a.k, b.k} = {"zero", "inf"} THEN [k |-> "nan"]
  ELSE IF a.k = "zero" \/ b.k = "zero" THEN [k |-> "zero"]
  ELSE IF a.k = "inf" \/ b.k = "inf" THEN [k |-> "inf"]
  ELSE Double(a.e + b.e)

\* calculate_risk_score for volatility 10^ev, volume_ratio 10^er and
\* market_cap 10^ec; min(risk_score, 1.0) returns its first argument unless
\* 1.0 < risk_score, so a nan stays.  The value is in 1/1000.
calculate_risk_score_magnitudes(ev, er, ec) ==
  LET volatility == Double(ev)
      risk_score == DoubleMul(DoubleMul(volatility, Double(-er)),
                              Double(9 - ec))
  IN  IF risk_score.k = "nan" THEN [nan |-> TRUE, value |-> 0]
      ELSE IF risk_score.k = "inf" THEN [nan |-> FALSE, value |-> 1000]
      ELSE IF risk_score.k = "zero" THEN [nan |-> FALSE, value |-> 0]
      ELSE IF risk_score.e >= 0 THEN [nan |-> FALSE, value |-> 1000]
      ELSE [nan |-> FALSE,
            value |-> CASE risk_score.e = -1 -> 100
                        [] risk_score.e = -2 -> 10
                        [] risk_score.e = -3 -> 1
                        [] OTHER -> 0]

\* Faulty variant of calculate_potential_return: no floor at 0.
calculate_potential_return_NoFloor(o) ==
  o.sentiment_score * 30 + o.technical_score * 40 + o.news_score * 30

calculate_potential_return(o) ==
  LET potential_return ==
        o.sentiment_score * 30 + o.technical_score * 40 + o.news_score * 30
  IN  Max(potential_return, 0)

\* the three assignments risk_score, potential_return, score made on a
\* TradingOpportunity by research_stock and by analyze_and_rank_opportunities
Scored(o) ==
  LET risk_score       == calculate_risk_score(o)
      potential_return == calculate_potential_return(o)
  IN  [symbol |-> o.symbol, current_price |-> o.current_price,
       volatility |-> o.volatility, volume_ratio |-> o.volume_ratio,
       market_cap |-> o.market_cap, technical_score |-> o.technical_score,
       sentiment_score |-> o.sentiment_score, news_score |-> o.news_score,
       risk_score |-> risk_score, potential_return |-> potential_return,
       score |-> (potential_return * 1000) \div (risk_score + 100)]

\* sorted(..., key=score, reverse=True): stable, descending
RECURSIVE InsertByScore(_, _)
RECURSIVE InsertByScore_Unstable(_, _)

\* Faulty variant of InsertByScore: an element goes before its equals.
InsertByScore_Unstable(r, s) ==
  IF s = <<>> THEN <<r>>
  ELSE IF Head(s).score > r.score
       THEN <<Head(s)>> \o InsertByScore_Unstable(r, Tail(s))
       ELSE <<r>> \o s

InsertByScore(r, s) ==
  IF s = <<>> THEN <<r>>
  ELSE IF Head(s).score >= r.score
       THEN <<Head(s)>> \o InsertByScore(r, Tail(s))
       ELSE <<r>> \o s

RECURSIVE SortByScore(_)
SortByScore(s) ==
  IF s = <<>> THEN <<>>
  ELSE InsertByScore(s[Len(s)], SortByScore(SubSeq(s, 1, Len(s) - 1)))

analyze_and_rank_opportunities(opps) ==
  SortByScore([i \in 1..Len(opps) |-> Scored(opps[i])])

\* ResearchEngine.find_opportunities: research every reported stock, then
\* sort by score
find_opportunities(raws) ==
  SortByScore([i \in 1..Len(raws) |-> Scored(raws[i])])

\* ------------------------------------------------ 4.3 execution simulator
MinPosition == 10000     \* min_position = 100 dollars

\* Faulty variant of calculate_position_size: no minimum position size.
calculate_position_size_NoMinimum(cfg, o) ==
  LET account_balance == cfg.account_balance
      risk_amount     == (account_balance * cfg.risk_percentage) \div 100
      risk_adjustment == 1000 - o.risk_score
      position_size   == (risk_amount * (1000 + risk_adjustment)) \div 1000
      max_position    == (account_balance * cfg.max_position_size) \div 100
  IN  Min(position_size, max_position)

calculate_position_size(cfg, o) ==
  LET account_balance == cfg.account_balance
      risk_amount     == (account_balance * cfg.risk_percentage) \div 100
      risk_adjustment == 1000 - o.risk_score
      position_size   == (risk_amount * (1000 + risk_adjustment)) \div 1000
      max_position    == (account_balance * cfg.max_position_size) \div 100
  IN  Max(Min(position_size, max_position), MinPosition)

\* ------------------------------------------------ 4.2 admission controller
\* Faulty variants of should_take_position, used to show that the claims
\* about admission depend on it.
should_take_position_NoDuplicateCheck(o, p, cfg) ==
  IF calculate_position_size(cfg, o) > p.account_balance
  THEN "InsufficientCapital"
  ELSE IF o.risk_score > cfg.max_risk_score THEN "RiskTooHigh"
  ELSE IF p.daily_pnl < -cfg.max_daily_loss THEN "DailyLossLimit"
  ELSE IF o.score < cfg.min_score_threshold THEN "ScoreTooLow"
  ELSE "Accept"

should_take_position_ConfigCapital(o, p, cfg) ==
  IF calculate_position_size(cfg, o) > cfg.account_balance
  THEN "InsufficientCapital"
  ELSE IF has_position(p.positions, o.symbol) THEN "DuplicatePosition"
  ELSE IF o.risk_score > cfg.max_risk_score THEN "RiskTooHigh"
  ELSE IF p.daily_pnl < -cfg.max_daily_loss THEN "DailyLossLimit"
  ELSE IF o.score < cfg.min_score_threshold THEN "ScoreTooLow"
  ELSE "Accept"

should_take_position_StrictRisk(o, p, cfg) ==
  IF calculate_position_size(cfg, o) > p.account_balance
  THEN "InsufficientCapital"
  ELSE IF has_position(p.positions, o.symbol) THEN "DuplicatePosition"
  ELSE IF o.risk_score >= cfg.max_risk_score THEN "RiskTooHigh"
  ELSE IF p.daily_pnl < -cfg.max_daily_loss THEN "DailyLossLimit"
  ELSE IF o.score < cfg.min_score_threshold THEN "ScoreTooLow"
  ELSE "Accept"

\* MultiStrategyAgent.should_take_position; the result is "Accept" for True
\* and otherwise names the message logged before returning False.
should_take_position(o, p, cfg) ==
  LET available_capital == p.account_balance
      position_size     == calculate_position_size(cfg, o)
  IN  IF position_size > available_capital THEN "InsufficientCapital"
      ELSE IF has_position(p.positions, o.symbol) THEN "DuplicatePosition"
      ELSE IF o.risk_score > cfg.max_risk_score THEN "RiskTooHigh"
      ELSE IF p.daily_pnl < -cfg.max_daily_loss THEN "DailyLossLimit"
      ELSE IF o.score < cfg.min_score_threshold THEN "ScoreTooLow"
      ELSE "Accept"

\* ---------------------------------------------------- 4.4 position ledger
\* Every ledger operation maps a pair [p |-> PortfolioManager fields,
\* d |-> database file] to the pair after the call.

Trade(sym, shares, price, type, score, risk) ==
  [symbol |-> sym, shares |-> shares, price |-> price,
   total |-> shares * price, type |-> type,
   opportunity_score |-> score, risk_score |-> risk]

\* Faulty variant of add_position: trades_today is not incremented.
add_position_NoCount(l, sym, shares, price, score, risk) ==
  IF shares <= 0 THEN l
  ELSE
    LET total_value == shares * price
        rec == [symbol |-> sym, shares |-> shares, avg_price |-> price,
                current_price |-> price, total_value |-> total_value,
                pnl |-> 0, score |-> score, risk_score |-> risk]
        p1 == [l.p EXCEPT !.account_balance = @ - total_value,
                          !.positions = Put(@, rec)]
    IN  IF l.d.tables
        THEN [p |-> p1,
              d |-> [l.d EXCEPT !.trades =
                       Append(@, Trade(sym, shares, price, "BUY", score, risk))]]
        ELSE [p |-> p1, d |-> l.d]

\* Faulty variant of add_position: no check of the share count.
add_position_NoShareCheck(l, sym, shares, price, score, risk) ==
  LET total_value == shares * price
      rec == [symbol |-> sym, shares |-> shares, avg_price |-> price,
              current_price |-> price, total_value |-> total_value,
              pnl |-> 0, score |-> score, risk_score |-> risk]
      p1 == [l.p EXCEPT !.account_balance = @ - total_value,
                        !.positions = Put(@, rec)]
  IN  IF l.d.tables
      THEN [p |-> [p1 EXCEPT !.trades_today = @ + 1],
            d |-> [l.d EXCEPT !.trades =
                     Append(@, Trade(sym, shares, price, "BUY", score, risk))]]
      ELSE [p |-> p1, d |-> l.d]

\* PortfolioManager.add_position
add_position(l, sym, shares, price, score, risk) ==
  IF shares <= 0 THEN l
  ELSE
    LET total_value == shares * price
        rec == [symbol |-> sym, shares |-> shares, avg_price |-> price,
                current_price |-> price, total_value |-> total_value,
                pnl |-> 0, score |-> score, risk_score |-> risk]
        p1 == [l.p EXCEPT !.account_balance = @ - total_value,
                          !.positions = Put(@, rec)]
    IN  IF l.d.tables
        THEN [p |-> [p1 EXCEPT !.trades_today = @ + 1],
              d |-> [l.d EXCEPT !.trades =
                       Append(@, Trade(sym, shares, price, "BUY", score, risk))]]
        ELSE \* the INSERT raises; the except clause only logs
             [p |-> p1, d |-> l.d]

\* Faulty variant of close_position: credits the cost basis, not the proceeds.
close_position_CreditsCost(l, sym, current_price) ==
  IF ~has_position(l.p.positions, sym) THEN l
  ELSE
    LET position    == Get(l.p.positions, sym)
        shares      == position.shares
        total_value == shares * current_price
        pnl         == total_value - shares * position.avg_price
    IN  [l EXCEPT !.p.account_balance = @ + shares * position.avg_price,
                  !.p.total_pnl = @ + pnl,
                  !.p.daily_pnl = @ + pnl,
                  !.p.positions = Del(@, sym)]

update_position(l, sym, current_price) ==
  IF ~has_position(l.p.positions, sym) THEN l
  ELSE
    LET position    == Get(l.p.positions, sym)
        total_value == position.shares * current_price
        pnl         == total_value - position.shares * position.avg_price
    IN  [l EXCEPT !.p.positions =
           Put(@, [position EXCEPT !.current_price = current_price,
                                   !.total_value = total_value,
                                   !.pnl = pnl])]

\* Faulty variant of close_position: a symbol that is not held is sold as a
\* position of no shares.
close_position_SellsAbsent(l, sym, current_price) ==
  IF ~has_position(l.p.positions, sym)
  THEN IF l.d.tables
       THEN [l EXCEPT !.d.trades =
               Append(@, Trade(sym, 0, current_price, "SELL", None, None))]
       ELSE l
  ELSE
    LET position    == Get(l.p.positions, sym)
        shares      == position.shares
        total_value == shares * current_price
        pnl         == total_value - shares * position.avg_price
        p1 == [l.p EXCEPT !.account_balance = @ + total_value,
                          !.total_pnl = @ + pnl,
                          !.daily_pnl = @ + pnl,
                          !.positions = Del(@, sym)]
    IN  IF l.d.tables
        THEN [p |-> p1,
              d |-> [l.d EXCEPT !.trades =
                       Append(@, Trade(sym, shares, current_price, "SELL",
                                       None, None))]]
        ELSE [p |-> p1, d |-> l.d]

close_position(l, sym, current_price) ==
  IF ~has_position(l.p.positions, sym) THEN l      \* KeyError, logged
  ELSE
    LET position    == Get(l.p.positions, sym)
        shares      == position.shares
        total_value == shares * current_price
        pnl         == total_value - shares * position.avg_price
        p1 == [l.p EXCEPT !.account_balance = @ + total_value,
                          !.total_pnl = @ + pnl,
                          !.daily_pnl = @ + pnl,
                          !.positions = Del(@, sym)]
    IN  IF l.d.tables
        THEN [p |-> p1,
              d |-> [l.d EXCEPT !.trades =
                       Append(@, Trade(sym, shares, current_price, "SELL",
                                       None, None))]]
        ELSE [p |-> p1, d |-> l.d]

\* Faulty variant of ExitReason: the stop-loss boundary is exclusive.
ExitReason_StrictStopLoss(cfg, position, current_price) ==
  LET change == (current_price - position.avg_price) * 100
  IN  IF change < -cfg.stop_loss_percentage * position.avg_price
      THEN "Stop Loss"
      ELSE IF change >= cfg.take_profit_percentage * position.avg_price
           THEN "Take Profit"
           ELSE "none"

\* Which exit check_stop_loss_take_profit takes.  price_change_pct =
\* ((current_price - avg_price) / avg_price) * 100 is compared after
\* multiplying both sides by avg_price > 0.
ExitReason(cfg, position, current_price) ==
  LET change == (current_price - position.avg_price) * 100
  IN  IF change <= -cfg.stop_loss_percentage * position.avg_price
      THEN "Stop Loss"
      ELSE IF change >= cfg.take_profit_percentage * position.avg_price
           THEN "Take Profit"
           ELSE "none"

check_stop_loss_take_profit(l, cfg, sym, current_price) ==
  IF ~has_position(l.p.positions, sym) THEN l      \* KeyError, logged
  ELSE IF Get(l.p.positions, sym).avg_price = 0 THEN l  \* ZeroDivisionError
  ELSE IF ExitReason(cfg, Get(l.p.positions, sym), current_price) = "none"
       THEN l
       ELSE close_position(l, sym, current_price)

\* Faulty variant of review_position: the looked-up price is used whatever it
\* is.
review_position_AnyPrice(l, cfg, sym, current_price) ==
  check_stop_loss_take_profit(update_position(l, sym, current_price),
                              cfg, sym, current_price)

\* one iteration of the loop of review_positions
review_position(l, cfg, sym, current_price) ==
  IF current_price > 0
  THEN check_stop_loss_take_profit(update_position(l, sym, current_price),
                                   cfg, sym, current_price)
  ELSE l

\* the first loop of update_portfolio, prices[i] being the price looked up
\* for the i-th position
RECURSIVE update_portfolio(_, _, _)
update_portfolio(l, syms, prices) ==
  IF syms = <<>> THEN l
  ELSE update_portfolio(
         IF Head(prices) > 0 THEN update_position(l, Head(syms), Head(prices))
                             ELSE l,
         Tail(syms), Tail(prices))

\* PortfolioManager.reset_daily_stats (no caller in the program)
reset_daily_stats(p, date) ==
  IF date # p.last_reset_date
  THEN [p EXCEPT !.daily_pnl = 0, !.trades_today = 0, !.last_reset_date = date]
  ELSE p


\* Faulty variant of max_trades: one trade too many.
max_trades_OneMore(cfg) == cfg.max_daily_trades + 1

\* max_trades = config.system.max_daily_trades in execute_strategy_trades
max_trades(cfg) == cfg.max_daily_trades

\* ------------------------------------------------------------ operations
\* the strategies whose initialization succeeded
Loaded == Range(strategies)

Strategy == strategies[cur]

Ledger(s) == [p |-> pm[s], d |-> db[s]]

NoTurn == [strategy |-> "none", bal0 |-> 0, held0 |-> {}, reviews |-> <<>>,
           given |-> <<>>, ranking |-> <<>>, walked |-> <<>>]

NoResearch == [calls |-> 0, result |-> <<>>, failed |-> FALSE]

NoCall == [op |-> "none", n |-> 0]

\* initialize_strategies: every configured strategy whose initialization
\* raised is left out of self.strategies; the others keep the order of the
\* configuration
InitializedStrategies ==
  { SelectSeq(StrategyOrder, LAMBDA s : s \in ok) : ok \in SUBSET Strategies }

\* candidate lists discovery may report: pairwise distinct symbols
\* (get_trending_stocks returns list(set(...))), in any order
CandidateLists ==
  UNION { { q \in [1..n -> Universe] :
              \A i, j \in 1..n : i < j => q[i].symbol # q[j].symbol } :
          n \in 0..Min(MaxCands, Cardinality(Symbols)) }

\* every value a price lookup can return
AllPrices == {0} \cup Quotes \cup {u.current_price : u \in Universe}

\* what get_current_price(sym) can return
Lookup(sym) == {0} \cup (IF market[sym] = None THEN Quotes ELSE {market[sym]})

\* the quotes after a lookup of sym returned price
Quoted(sym, price) ==
  IF price > 0 THEN [market EXCEPT ![sym] = price] ELSE market

Init ==
  /\ is_running = FALSE
  /\ pc = "init"
  /\ cur = 1
  /\ opportunities = <<>>
  /\ ranked = <<>>
  /\ review = <<>>
  /\ trades_executed = 0
  /\ pm = [s \in Strategies |->
            [account_balance |-> StrategyConfig[s].account_balance,
             positions |-> <<>>, total_pnl |-> 0, daily_pnl |-> 0,
             trades_today |-> 0, last_reset_date |-> 0]]
  /\ db = [s \in Strategies |-> [tables |-> TRUE, trades |-> <<>>]]
  /\ today = 0
  /\ cycles = 0
  /\ market = [sym \in Symbols |-> None]
  /\ rollover = FALSE
  /\ turn = NoTurn
  /\ strategies \in InitializedStrategies
  /\ research = NoResearch
  /\ call = NoCall

\* MultiStrategyAgent.run, up to the loop
Run ==
  /\ UNCHANGED <<strategies, research, call>>
  /\ pc = "init"
  /\ is_running' = TRUE
  /\ pc' = "loop"
  /\ UNCHANGED <<cur, opportunities, ranked, review, trades_executed, pm, db,
                 today, cycles, market, rollover, turn>>

\* Faulty variant of StartCycle: the loop does not test the running flag.
StartCycle_IgnoresShutdown ==
  /\ UNCHANGED <<strategies, call>>
  /\ pc = "loop"
  /\ cycles < MaxCycles
  /\ strategies # <<>>
  /\ \E raws \in CandidateLists :
       /\ opportunities' = find_opportunities(raws)
       /\ research' = [calls |-> research.calls + 1,
                       result |-> find_opportunities(raws),
                       failed |-> FALSE]
       /\ market' = [sym \in Symbols |->
            IF \E i \in 1..Len(raws) :
                 raws[i].symbol = sym /\ raws[i].current_price > 0
            THEN (CHOOSE r \in Range(raws) : r.symbol = sym).current_price
            ELSE None]
  /\ cycles' = cycles + 1
  /\ cur' = 1
  /\ pc' = "strategy"
  /\ UNCHANGED <<is_running, ranked, review, trades_executed, pm, db, today,
                 rollover, turn>>

\* daily_trading_cycle: the single discovery call of the cycle succeeds
StartCycle ==
  /\ UNCHANGED <<strategies, call>>
  /\ pc = "loop"
  /\ is_running
  /\ cycles < MaxCycles
  /\ strategies # <<>>
  /\ \E raws \in CandidateLists :
       /\ opportunities' = find_opportunities(raws)
       /\ research' = [calls |-> research.calls + 1,
                       result |-> find_opportunities(raws),
                       failed |-> FALSE]
       /\ market' = [sym \in Symbols |->
            IF \E i \in 1..Len(raws) :
                 raws[i].symbol = sym /\ raws[i].current_price > 0
            THEN (CHOOSE r \in Range(raws) : r.symbol = sym).current_price
            ELSE None]
  /\ cycles' = cycles + 1
  /\ cur' = 1
  /\ pc' = "strategy"
  /\ UNCHANGED <<is_running, ranked, review, trades_executed, pm, db, today,
                 rollover, turn>>

\* daily_trading_cycle with no strategy loaded: the cycle is skipped before
\* the discovery call
SkipCycle ==
  /\ pc = "loop"
  /\ is_running
  /\ cycles < MaxCycles
  /\ strategies = <<>>
  /\ cycles' = cycles + 1
  /\ rollover' = FALSE
  /\ pc' = "wait"
  /\ UNCHANGED <<is_running, cur, opportunities, ranked, review,
                 trades_executed, pm, db, today, market, turn, strategies,
                 research, call>>

\* daily_trading_cycle: the discovery call raises; run() logs the error and
\* sleeps 60 seconds
DiscoveryError ==
  /\ UNCHANGED <<strategies, call>>
  /\ pc = "loop"
  /\ is_running
  /\ cycles < MaxCycles
  /\ strategies # <<>>
  /\ research' = [calls |-> research.calls + 1, result |-> <<>>,
                  failed |-> TRUE]
  /\ cycles' = cycles + 1
  /\ market' = [sym \in Symbols |-> None]
  /\ rollover' = FALSE
  /\ pc' = "retry"
  /\ UNCHANGED <<is_running, cur, opportunities, ranked, review,
                 trades_executed, pm, db, today, turn>>

\* the 60 second sleep of run() ends; midnight may have passed meanwhile
Retry ==
  /\ UNCHANGED <<strategies, research>>
  /\ call' = NoCall
  /\ pc = "retry"
  /\ \E d \in {today, today + 1} :
       /\ today' = d
       /\ rollover' = (rollover \/ d # today)
  /\ pc' = "loop"
  /\ UNCHANGED <<is_running, cur, opportunities, ranked, review,
                 trades_executed, pm, db, cycles, market, turn>>

\* Faulty variant of BeginStrategy: every strategy makes a discovery call of
\* its own.
BeginStrategy_OwnDiscovery ==
  /\ UNCHANGED <<strategies, call>>
  /\ pc = "strategy"
  /\ \E raws \in CandidateLists :
       LET s   == Strategy
           cfg == StrategyConfig[s]
           own == find_opportunities(raws)
           ranked_opportunities == analyze_and_rank_opportunities(own)
       IN  /\ research' = [calls |-> research.calls + 1, result |-> own,
                            failed |-> FALSE]
           /\ opportunities' = own
           /\ ranked' = SubSeq(ranked_opportunities, 1,
                               Min(max_trades(cfg), Len(ranked_opportunities)))
           /\ review' = Keys(pm[s].positions)
           /\ turn' = [strategy |-> s, bal0 |-> pm[s].account_balance,
                       held0 |-> Range(Keys(pm[s].positions)),
                       reviews |-> <<>>,
                       given |-> own,
                       ranking |-> ranked_opportunities,
                       walked |-> <<>>]
  /\ pc' = "review"
  /\ UNCHANGED <<is_running, cur, trades_executed, pm, db, today, cycles,
                 market, rollover>>

\* Faulty variant of BeginStrategy: the shared list is cut down to the
\* candidates this strategy will walk.
BeginStrategy_TruncatesList ==
  /\ UNCHANGED <<strategies, research, call>>
  /\ pc = "strategy"
  /\ LET s   == Strategy
         cfg == StrategyConfig[s]
         ranked_opportunities == analyze_and_rank_opportunities(opportunities)
     IN  /\ opportunities' =
              [i \in 1..Min(max_trades(cfg), Len(opportunities)) |->
                 Scored(opportunities[i])]
         /\ ranked' = SubSeq(ranked_opportunities, 1,
                             Min(max_trades(cfg), Len(ranked_opportunities)))
         /\ review' = Keys(pm[s].positions)
         /\ turn' = [strategy |-> s, bal0 |-> pm[s].account_balance,
                     held0 |-> Range(Keys(pm[s].positions)),
                     reviews |-> <<>>,
                     given |-> opportunities,
                     ranking |-> ranked_opportunities,
                     walked |-> <<>>]
  /\ pc' = "review"
  /\ UNCHANGED <<is_running, cur, trades_executed, pm, db, today, cycles,
                 market, rollover>>

\* execute_strategy_trades up to the loop of review_positions: rank the
\* candidates (which rewrites the shared objects), snapshot the position keys
BeginStrategy ==
  /\ UNCHANGED <<strategies, research, call>>
  /\ pc = "strategy"
  /\ LET s   == Strategy
         cfg == StrategyConfig[s]
         ranked_opportunities == analyze_and_rank_opportunities(opportunities)
     IN  /\ opportunities' =
              [i \in 1..Len(opportunities) |-> Scored(opportunities[i])]
         /\ ranked' = SubSeq(ranked_opportunities, 1,
                             Min(max_trades(cfg), Len(ranked_opportunities)))
         /\ review' = Keys(pm[s].positions)
         /\ turn' = [strategy |-> s, bal0 |-> pm[s].account_balance,
                     held0 |-> Range(Keys(pm[s].positions)),
                     reviews |-> <<>>,
                     given |-> opportunities,
                     ranking |-> ranked_opportunities,
                     walked |-> <<>>]
  /\ pc' = "review"
  /\ UNCHANGED <<is_running, cur, trades_executed, pm, db, today, cycles,
                 market, rollover>>

\* one iteration of review_positions: look the price up, mark to market,
\* evaluate the exit
ReviewPosition ==
  /\ UNCHANGED <<strategies, research, call>>
  /\ pc = "review"
  /\ review # <<>>
  /\ \E current_price \in Lookup(Head(review)) :
       LET s   == Strategy
           sym == Head(review)
           position == Get(pm[s].positions, sym)
           l   == review_position(Ledger(s), StrategyConfig[s], sym,
                                  current_price)
       IN  /\ pm' = [pm EXCEPT ![s] = l.p]
           /\ db' = [db EXCEPT ![s] = l.d]
           /\ turn' = [turn EXCEPT !.reviews = Append(@,
                [symbol |-> sym, price |-> current_price,
                 avg_price |-> position.avg_price,
                 shares |-> position.shares,
                 reason |-> IF has_position(l.p.positions, sym) THEN "none"
                            ELSE ExitReason(StrategyConfig[s], position,
                                            current_price)])]
           /\ market' = Quoted(sym, current_price)
  /\ review' = Tail(review)
  /\ UNCHANGED <<is_running, pc, cur, opportunities, ranked, trades_executed,
                 today, cycles, rollover>>

\* Faulty variant of BeginTrades: the trade loop starts while positions are
\* still waiting for their review.
BeginTrades_BeforeReview ==
  /\ UNCHANGED <<strategies, research, call>>
  /\ pc = "review"
  /\ trades_executed' = 0
  /\ pc' = "trade"
  /\ UNCHANGED <<is_running, cur, opportunities, ranked, review, pm, db,
                 today, cycles, market, rollover, turn>>

\* review_positions returns; the trade loop starts
BeginTrades ==
  /\ UNCHANGED <<strategies, research, call>>
  /\ pc = "review"
  /\ review = <<>>
  /\ trades_executed' = 0
  /\ pc' = "trade"
  /\ UNCHANGED <<is_running, cur, opportunities, ranked, review, pm, db,
                 today, cycles, market, rollover, turn>>

\* Faulty variant of TradeStep: a candidate that is turned down still counts
\* as a trade of the day.
TradeStep_CountsRejections ==
  /\ UNCHANGED <<strategies, research, call>>
  /\ pc = "trade"
  /\ ranked # <<>>
  /\ LET s   == Strategy
         cfg == StrategyConfig[s]
         opportunity == Head(ranked)
         decision == should_take_position(opportunity, pm[s], cfg)
         entry == [symbol |-> opportunity.symbol, decision |-> decision,
                   capital |-> pm[s].account_balance,
                   held |-> has_position(pm[s].positions, opportunity.symbol),
                   shares |-> None, opened |-> FALSE]
     IN  IF decision # "Accept"
         THEN /\ ranked' = Tail(ranked)
              /\ turn' = [turn EXCEPT !.walked = Append(@, entry)]
              /\ pm' = [pm EXCEPT ![s].trades_today = @ + 1]
              /\ UNCHANGED <<db, trades_executed>>
         ELSE IF opportunity.current_price = 0
         THEN \* the division raises; the loop logs and goes on
              /\ ranked' = Tail(ranked)
              /\ turn' = [turn EXCEPT !.walked = Append(@, entry)]
              /\ UNCHANGED <<pm, db, trades_executed>>
         ELSE LET shares == calculate_position_size(cfg, opportunity)
                              \div opportunity.current_price
                  l == add_position(Ledger(s), opportunity.symbol, shares,
                                    opportunity.current_price,
                                    opportunity.score, opportunity.risk_score)
              IN  /\ pm' = [pm EXCEPT ![s] = l.p]
                  /\ db' = [db EXCEPT ![s] = l.d]
                  /\ trades_executed' = trades_executed + 1
                  /\ ranked' = IF trades_executed + 1 >= max_trades(cfg)
                               THEN <<>> ELSE Tail(ranked)
                  /\ turn' = [turn EXCEPT !.walked = Append(@,
                       [entry EXCEPT !.shares = shares,
                                     !.opened = (shares > 0)])]
  /\ UNCHANGED <<is_running, pc, cur, opportunities, review, today, cycles,
                 market, rollover>>

\* one iteration of the trade loop of execute_strategy_trades
TradeStep ==
  /\ UNCHANGED <<strategies, research, call>>
  /\ pc = "trade"
  /\ ranked # <<>>
  /\ LET s   == Strategy
         cfg == StrategyConfig[s]
         opportunity == Head(ranked)
         decision == should_take_position(opportunity, pm[s], cfg)
         entry == [symbol |-> opportunity.symbol, decision |-> decision,
                   capital |-> pm[s].account_balance,
                   held |-> has_position(pm[s].positions, opportunity.symbol),
                   shares |-> None, opened |-> FALSE]
     IN  IF decision # "Accept"
         THEN /\ ranked' = Tail(ranked)
              /\ turn' = [turn EXCEPT !.walked = Append(@, entry)]
              /\ UNCHANGED <<pm, db, trades_executed>>
         ELSE IF opportunity.current_price = 0
         THEN \* the division raises; the loop logs and goes on
              /\ ranked' = Tail(ranked)
              /\ turn' = [turn EXCEPT !.walked = Append(@, entry)]
              /\ UNCHANGED <<pm, db, trades_executed>>
         ELSE LET shares == calculate_position_size(cfg, opportunity)
                              \div opportunity.current_price
                  l == add_position(Ledger(s), opportunity.symbol, shares,
                                    opportunity.current_price,
                                    opportunity.score, opportunity.risk_score)
              IN  /\ pm' = [pm EXCEPT ![s] = l.p]
                  /\ db' = [db EXCEPT ![s] = l.d]
                  /\ trades_executed' = trades_executed + 1
                  /\ ranked' = IF trades_executed + 1 >= max_trades(cfg)
                               THEN <<>> ELSE Tail(ranked)
                  /\ turn' = [turn EXCEPT !.walked = Append(@,
                       [entry EXCEPT !.shares = shares,
                                     !.opened = (shares > 0)])]
  /\ UNCHANGED <<is_running, pc, cur, opportunities, review, today, cycles,
                 market, rollover>>

\* An error was raised and handled while the current strategy was processed:
\* a price lookup of the review failed, the share computation of the trade
\* loop raised, or the INSERT of add_position raised.
ErrorInTurn ==
  \/ \E i \in 1..Len(turn.reviews) : turn.reviews[i].price <= 0
  \/ \E i \in 1..Len(turn.walked) :
       \/ turn.walked[i].decision = "Accept" /\ turn.walked[i].shares = None
       \/ turn.walked[i].opened /\ ~db[turn.strategy].tables

\* Faulty variant of FinishStrategy: after an error the cycle ends with the
\* current strategy.
FinishStrategy_StopsOnError ==
  /\ UNCHANGED <<strategies, research, call>>
  /\ pc = "trade"
  /\ ranked = <<>>
  /\ LET s    == Strategy
         syms == Keys(pm[s].positions)
     IN  \E prices \in [1..Len(syms) -> AllPrices] :
           /\ \A i \in 1..Len(syms) : prices[i] \in Lookup(syms[i])
           /\ pm' = [pm EXCEPT ![s] =
                       update_portfolio(Ledger(s), syms, prices).p]
           /\ market' = [sym \in Symbols |->
                IF \E i \in 1..Len(syms) : syms[i] = sym /\ prices[i] > 0
                THEN prices[CHOOSE i \in 1..Len(syms) : syms[i] = sym]
                ELSE market[sym]]
  /\ IF cur < Len(strategies) /\ ~ErrorInTurn
     THEN /\ cur' = cur + 1
          /\ pc' = "strategy"
          /\ UNCHANGED <<rollover, turn>>
     ELSE /\ cur' = 1
          /\ pc' = "wait"
          /\ rollover' = FALSE
          /\ turn' = NoTurn
  /\ UNCHANGED <<is_running, opportunities, ranked, review, trades_executed,
                 db, today, cycles>>

\* the trade loop is over: update_portfolio, then the next strategy or the
\* end of daily_trading_cycle
FinishStrategy ==
  /\ UNCHANGED <<strategies, research, call>>
  /\ pc = "trade"
  /\ ranked = <<>>
  /\ LET s    == Strategy
         syms == Keys(pm[s].positions)
     IN  \E prices \in [1..Len(syms) -> AllPrices] :
           /\ \A i \in 1..Len(syms) : prices[i] \in Lookup(syms[i])
           /\ pm' = [pm EXCEPT ![s] =
                       update_portfolio(Ledger(s), syms, prices).p]
           /\ market' = [sym \in Symbols |->
                IF \E i \in 1..Len(syms) : syms[i] = sym /\ prices[i] > 0
                THEN prices[CHOOSE i \in 1..Len(syms) : syms[i] = sym]
                ELSE market[sym]]
  /\ IF cur < Len(strategies)
     THEN /\ cur' = cur + 1
          /\ pc' = "strategy"
          /\ UNCHANGED <<rollover, turn>>
     ELSE /\ cur' = 1
          /\ pc' = "wait"
          /\ rollover' = FALSE
          /\ turn' = NoTurn
  /\ UNCHANGED <<is_running, opportunities, ranked, review, trades_executed,
                 db, today, cycles>>

\* Faulty variant of WaitForNextTradingDay: the wait is started over when the
\* agent is no longer running.
WaitForNextTradingDay_WaitsAgain ==
  /\ UNCHANGED <<strategies, research>>
  /\ call' = NoCall
  /\ pc = "wait"
  /\ today' = IF is_running THEN today + 1 ELSE today
  /\ rollover' = (is_running \/ rollover)
  /\ pc' = IF is_running THEN "loop" ELSE "wait"
  /\ UNCHANGED <<is_running, cur, opportunities, ranked, review,
                 trades_executed, pm, db, cycles, market, turn>>

\* wait_for_next_trading_day: sleep 24 hours
WaitForNextTradingDay ==
  /\ UNCHANGED <<strategies, research>>
  /\ call' = NoCall
  /\ pc = "wait"
  /\ today' = today + 1
  /\ rollover' = TRUE
  /\ pc' = "loop"
  /\ UNCHANGED <<is_running, cur, opportunities, ranked, review,
                 trades_executed, pm, db, cycles, market, turn>>

\* The dashboard handlers run on the event loop of the agent; the cycle never
\* yields to it (none of the awaited coroutines suspends), so a handler runs
\* during one of the sleeps of run().
Sleeping == pc \in {"wait", "retry"}

\* the strategy names a request may carry
Names == Strategies \cup {"other"}

\* the record of an answered request: was is the ledger of the strategy
\* before the request
Request(op, s, balance, error) ==
  [op |-> op, n |-> 0, strategy |-> s, balance |-> balance, error |-> error,
   was |-> IF s \in Strategies THEN pm[s] ELSE <<>>]

\* Faulty variant of SetBalance: the daily statistics are cleared as well.
SetBalance_ClearsDailyStats ==
  /\ UNCHANGED <<strategies, research>>
  /\ Sleeping
  /\ \E s \in Loaded, new_balance \in Balances :
       /\ pm' = [pm EXCEPT ![s].account_balance = new_balance,
                           ![s].daily_pnl = 0,
                           ![s].trades_today = 0]
       /\ call' = Request("set_balance", s, new_balance, FALSE)
  /\ UNCHANGED <<is_running, pc, cur, opportunities, ranked, review,
                 trades_executed, db, today, cycles, market, rollover, turn>>

\* POST /api/set-balance/{strategy_name} for a loaded strategy
SetBalance ==
  /\ UNCHANGED <<strategies, research>>
  /\ Sleeping
  /\ \E s \in Loaded, new_balance \in Balances :
       /\ pm' = [pm EXCEPT ![s].account_balance = new_balance]
       /\ call' = Request("set_balance", s, new_balance, FALSE)
  /\ UNCHANGED <<is_running, pc, cur, opportunities, ranked, review,
                 trades_executed, db, today, cycles, market, rollover, turn>>

\* POST /api/set-balance/{strategy_name} for a name that is not in
\* config.yaml ("not found") or not among the loaded strategies (KeyError):
\* an error is returned
SetBalanceUnknown ==
  /\ UNCHANGED <<strategies, research>>
  /\ Sleeping
  /\ \E s \in Names \ Loaded, new_balance \in Balances :
       call' = Request("set_balance", s, new_balance, TRUE)
  /\ UNCHANGED <<is_running, pc, cur, opportunities, ranked, review,
                 trades_executed, pm, db, today, cycles, market, rollover,
                 turn>>

\* MultiStrategyAgent.shutdown, called on the event loop of a running agent:
\* clears is_running; the shutdown methods of the engines only log
Shutdown ==
  /\ UNCHANGED <<strategies, research, call>>
  /\ Sleeping
  /\ is_running
  /\ is_running' = FALSE
  /\ UNCHANGED <<pc, cur, opportunities, ranked, review, trades_executed, pm,
                 db, today, cycles, market, rollover, turn>>

\* run(): the loop condition is false and run returns
RunReturns ==
  /\ UNCHANGED <<strategies, research, call>>
  /\ pc = "loop"
  /\ ~is_running
  /\ pc' = "done"
  /\ UNCHANGED <<is_running, cur, opportunities, ranked, review,
                 trades_executed, pm, db, today, cycles, market, rollover,
                 turn>>

\* Faulty variant of Reset: resets every loaded strategy, not the named one.
Reset_AllStrategies ==
  /\ UNCHANGED <<strategies, research>>
  /\ Sleeping
  /\ \E s \in Loaded :
       call' = Request("reset", s, StrategyConfig[s].account_balance, FALSE)
  /\ pm' = [s \in Strategies |->
             IF s \in Loaded
             THEN [pm[s] EXCEPT !.account_balance =
                                  StrategyConfig[s].account_balance,
                                !.positions = <<>>,
                                !.total_pnl = 0,
                                !.daily_pnl = 0,
                                !.trades_today = 0]
             ELSE pm[s]]
  /\ db' = [s \in Strategies |->
             IF s \in Loaded THEN [tables |-> FALSE, trades |-> <<>>]
             ELSE db[s]]
  /\ UNCHANGED <<is_running, pc, cur, opportunities, ranked, review,
                 trades_executed, today, cycles, market, rollover, turn>>

\* Faulty variant of Reset: the balance is left as it is.
Reset_KeepsBalance ==
  /\ UNCHANGED <<strategies, research>>
  /\ Sleeping
  /\ \E s \in Loaded :
       /\ call' = Request("reset", s, StrategyConfig[s].account_balance, FALSE)
       /\ pm' = [pm EXCEPT ![s].positions = <<>>,
                           ![s].total_pnl = 0,
                           ![s].daily_pnl = 0,
                           ![s].trades_today = 0]
       /\ db' = [db EXCEPT ![s] = [tables |-> FALSE, trades |-> <<>>]]
  /\ UNCHANGED <<is_running, pc, cur, opportunities, ranked, review,
                 trades_executed, today, cycles, market, rollover, turn>>

\* POST /api/reset/{strategy_name}: removes the database file (its tables are
\* only created by PortfolioManager.__init__)
Reset ==
  /\ UNCHANGED <<strategies, research>>
  /\ Sleeping
  /\ \E s \in Loaded :
       /\ call' = Request("reset", s, StrategyConfig[s].account_balance, FALSE)
       /\ pm' = [pm EXCEPT ![s].account_balance =
                                StrategyConfig[s].account_balance,
                           ![s].positions = <<>>,
                           ![s].total_pnl = 0,
                           ![s].daily_pnl = 0,
                           ![s].trades_today = 0]
       /\ db' = [db EXCEPT ![s] = [tables |-> FALSE, trades |-> <<>>]]
  /\ UNCHANGED <<is_running, pc, cur, opportunities, ranked, review,
                 trades_executed, today, cycles, market, rollover, turn>>

Next ==
  \/ Run
  \/ StartCycle
  \/ SkipCycle
  \/ DiscoveryError
  \/ Retry
  \/ BeginStrategy
  \/ ReviewPosition
  \/ BeginTrades
  \/ TradeStep
  \/ FinishStrategy
  \/ WaitForNextTradingDay
  \/ SetBalance
  \/ SetBalanceUnknown
  \/ Reset
  \/ Shutdown
  \/ RunReturns

Spec == Init /\ [][Next]_vars

\* The sleeps of run() return (asyncio.sleep of 24 hours and of 60 seconds)
\* and the loop condition is then evaluated: the steps that end a sleep and
\* the return of run() are taken when they stay possible.
FairSpec ==
  Spec /\ WF_vars(WaitForNextTradingDay) /\ WF_vars(Retry)
       /\ WF_vars(RunReturns)

TypeOK ==
  /\ is_running \in BOOLEAN
  /\ pc \in {"init", "loop", "retry", "strategy", "review", "trade", "wait",
            "done"}
  /\ cur \in 1..Len(StrategyOrder)
  /\ cycles \in 0..MaxCycles
  /\ \A s \in Strategies :
       \A i, j \in 1..Len(pm[s].positions) :
         i # j => pm[s].positions[i].symbol # pm[s].positions[j].symbol


\* ------------------------------------------------------- status output
get_portfolio_summary(p) ==
  [account_balance |-> p.account_balance, total_pnl |-> p.total_pnl,
   daily_pnl |-> p.daily_pnl, positions_count |-> Len(p.positions),
   trades_today |-> p.trades_today]

\* MultiStrategyAgent.get_status: one entry per key of self.strategies;
\* is_active is the value stored by initialize_strategies, and
\* daily_opportunities is never assigned after it
get_status ==
  [is_running |-> is_running,
   strategies |->
     [s \in Loaded |->
        LET portfolio_summary == get_portfolio_summary(pm[s])
        IN  [is_active |-> TRUE,
             account_balance |-> portfolio_summary.account_balance,
             total_pnl |-> portfolio_summary.total_pnl,
             daily_pnl |-> portfolio_summary.daily_pnl,
             positions_count |-> portfolio_summary.positions_count,
             trades_today |-> portfolio_summary.trades_today,
             opportunities_count |-> 0]]]

\* ---------------------------------------- the ledger called in isolation
\* PortfolioManager's operations are public: LedgerSpec calls them in any
\* order with any arguments, on the manager of the first strategy.
MaxCalls == 3       \* calls made on the component

LedgerSymbols == {"X", "Y"}
LedgerShares == {0, 2, 4}
LedgerPrices == {9700, 10000, 10600}
LedgerBalances == {25000}

LedgerInit ==
  /\ is_running = FALSE
  /\ pc = "ledger"
  /\ cur = 1
  /\ opportunities = <<>>
  /\ ranked = <<>>
  /\ review = <<>>
  /\ trades_executed = 0
  /\ \E b \in LedgerBalances :
       pm = [s \in Strategies |->
              [account_balance |-> b, positions |-> <<>>, total_pnl |-> 0,
               daily_pnl |-> 0, trades_today |-> 0, last_reset_date |-> 0]]
  /\ \E t \in BOOLEAN :
       db = [s \in Strategies |-> [tables |-> t, trades |-> <<>>]]
  /\ today = 0
  /\ cycles = 0
  /\ market = [sym \in Symbols |-> None]
  /\ rollover = FALSE
  /\ turn = NoTurn
  /\ strategies = StrategyOrder
  /\ research = NoResearch
  /\ call = NoCall

\* the effect of the call op(sym, shares, price) that turns the ledger of the
\* strategy into l
Called(op, sym, shares, price, l) ==
  /\ pm' = [pm EXCEPT ![Strategy] = l.p]
  /\ db' = [db EXCEPT ![Strategy] = l.d]
  /\ call' = [op |-> op, n |-> call.n + 1, strategy |-> Strategy,
              symbol |-> sym, shares |-> shares, price |-> price]
  /\ UNCHANGED <<is_running, pc, cur, opportunities, ranked, review,
                 trades_executed, today, cycles, market, rollover, turn,
                 strategies, research>>

LedgerOpen ==
  /\ pc = "ledger"
  /\ call.n < MaxCalls
  /\ \E sym \in LedgerSymbols, shares \in LedgerShares,
        price \in LedgerPrices :
       Called("open", sym, shares, price,
              add_position(Ledger(Strategy), sym, shares, price, 4600, 400))

LedgerMark ==
  /\ pc = "ledger"
  /\ call.n < MaxCalls
  /\ \E sym \in LedgerSymbols, price \in LedgerPrices :
       Called("markToMarket", sym, None, price,
              update_position(Ledger(Strategy), sym, price))

LedgerExit ==
  /\ pc = "ledger"
  /\ call.n < MaxCalls
  /\ \E sym \in LedgerSymbols, price \in LedgerPrices :
       Called("evaluateExit", sym, None, price,
              check_stop_loss_take_profit(Ledger(Strategy),
                                          StrategyConfig[Strategy], sym, price))

LedgerClose ==
  /\ pc = "ledger"
  /\ call.n < MaxCalls
  /\ \E sym \in LedgerSymbols, price \in LedgerPrices :
       Called("close", sym, None, price,
              close_position(Ledger(Strategy), sym, price))

LedgerNext ==
  \/ LedgerOpen
  \/ LedgerMark
  \/ LedgerExit
  \/ LedgerClose

LedgerSpec == LedgerInit /\ [][LedgerNext]_vars


\* ------------------------------- scorer and sizing called in isolation
\* ScorerSpec applies the pure computations to inputs drawn from grids.
SizeBalances == {100000, 1000000, 10000000}
SizeRiskPercentages == {1, 2, 5}
SizeMaxPositions == {5, 10}
SizeRiskScores == {0, 160, 400, 800, 1000}
SizePrices == {5000, 10000}

RiskVolatilities == {0, 200, 400, 1500, 5000}
RiskVolumeRatios == {0, 50, 100, 200}
RiskMarketCaps == {0, 500, 1000, 2000}
RiskExponents == {-300, -200, 0, 200}

ScoreProbes ==
  { Raw("P", 10000, vol, 100, 1000, tech, sent, 0) :
      vol \in {0, 100, 400, 1000, 1500}, tech \in {-50, 0, 5, 50, 100},
      sent \in {-50, 10} }

ScorerInit ==
  /\ is_running = FALSE
  /\ pc = "scorer"
  /\ cur = 1
  /\ opportunities = <<>>
  /\ ranked = <<>>
  /\ review = <<>>
  /\ trades_executed = 0
  /\ pm = [s \in Strategies |->
            [account_balance |-> StrategyConfig[s].account_balance,
             positions |-> <<>>, total_pnl |-> 0, daily_pnl |-> 0,
             trades_today |-> 0, last_reset_date |-> 0]]
  /\ db = [s \in Strategies |-> [tables |-> TRUE, trades |-> <<>>]]
  /\ today = 0
  /\ cycles = 0
  /\ market = [sym \in Symbols |-> None]
  /\ rollover = FALSE
  /\ turn = NoTurn
  /\ strategies = StrategyOrder
  /\ research = NoResearch
  /\ call = NoCall

\* the computations change nothing but the record of the call
Evaluated ==
  UNCHANGED <<is_running, pc, cur, opportunities, ranked, review,
              trades_executed, pm, db, today, cycles, market, rollover, turn,
              strategies, research>>

\* TradingEngine.calculate_position_size and the share count derived from it
EvalSize ==
  /\ pc = "scorer"
  /\ call.op = "none"
  /\ \E b \in SizeBalances, rp \in SizeRiskPercentages,
        mp \in SizeMaxPositions, r \in SizeRiskScores, price \in SizePrices :
       LET cfg == [account_balance |-> b, risk_percentage |-> rp,
                   max_position_size |-> mp]
           size == calculate_position_size(cfg, [risk_score |-> r])
       IN  call' = [op |-> "size", n |-> 1, cfg |-> cfg, risk_score |-> r,
                    price |-> price, size |-> size,
                    shares |-> size \div price]
  /\ Evaluated

\* calculate_risk_score on the fixed-point grid
EvalRisk ==
  /\ pc = "scorer"
  /\ call.op = "none"
  /\ \E vol \in RiskVolatilities, vr \in RiskVolumeRatios,
        mc \in RiskMarketCaps :
       call' = [op |-> "risk", n |-> 1, args |-> <<vol, vr, mc>>,
                result |-> [nan |-> FALSE,
                            value |-> calculate_risk_score(
                              [volatility |-> vol, volume_ratio |-> vr,
                               market_cap |-> mc])]]
  /\ Evaluated

\* calculate_risk_score on extreme magnitudes
EvalRiskMagnitudes ==
  /\ pc = "scorer"
  /\ call.op = "none"
  /\ \E ev \in RiskExponents, er \in RiskExponents, ec \in RiskExponents :
       call' = [op |-> "risk", n |-> 1, exponents |-> <<ev, er, ec>>,
                result |-> calculate_risk_score_magnitudes(ev, er, ec)]
  /\ Evaluated

\* the scoring of two candidates
EvalScore ==
  /\ pc = "scorer"
  /\ call.op = "none"
  /\ \E a \in ScoreProbes, b \in ScoreProbes :
       call' = [op |-> "score", n |-> 1, a |-> Scored(a), b |-> Scored(b)]
  /\ Evaluated

\* analyze_and_rank_opportunities on a list in discovery order
EvalRank ==
  /\ pc = "scorer"
  /\ call.op = "none"
  /\ \E raws \in CandidateLists :
       call' = [op |-> "rank", n |-> 1, input |-> raws,
                result |-> analyze_and_rank_opportunities(raws)]
  /\ Evaluated

ScorerNext ==
  \/ EvalSize
  \/ EvalRisk
  \/ EvalRiskMagnitudes
  \/ EvalScore
  \/ EvalRank

ScorerSpec == ScorerInit /\ [][ScorerNext]_vars

\* ------------------------------------ one cycle, the strategies interleaved
\* The program processes the strategies of a cycle one after the other.
\* InterleavedSpec runs the same per-strategy steps of one cycle in any
\* interleaving, on the one shared candidate list; lookup[sym] is what a
\* price lookup of sym gives during the cycle (0: the lookup fails).  Here
\* turn[s] is the position of strategy s in execute_strategy_trades, with
\* its local variables, research records which strategy ranked first and the
\* order in which the strategies finished, and call keeps the ledgers and
\* the list the cycle started from.
InterleavedLists ==
  { q \in CandidateLists : Len(q) <= 2 }
InterleavedQuotes == {0, 9700, 10600}

\* a position of 4 shares bought at 100.00 before the cycle
HeldBefore(sym) ==
  [symbol |-> sym, shares |-> 4, avg_price |-> 10000, current_price |-> 10000,
   total_value |-> 40000, pnl |-> 0, score |-> 4600, risk_score |-> 400]

\* the ledgers a strategy may start the cycle with
LedgersBefore(s) ==
  { [p |-> [account_balance |-> StrategyConfig[s].account_balance,
            positions |-> <<>>, total_pnl |-> 0, daily_pnl |-> 0,
            trades_today |-> 0, last_reset_date |-> 0],
     d |-> [tables |-> TRUE, trades |-> <<>>]],
    [p |-> [account_balance |-> StrategyConfig[s].account_balance - 40000,
            positions |-> <<HeldBefore("X")>>, total_pnl |-> 0,
            daily_pnl |-> 0, trades_today |-> 0, last_reset_date |-> 0],
     d |-> [tables |-> TRUE,
            trades |-> <<Trade("X", 4, 10000, "BUY", 4600, 400)>>]] }

Entering == [pc |-> "rank", ranked |-> <<>>, review |-> <<>>,
             trades_executed |-> 0]

InterleavedInit ==
  /\ is_running = TRUE
  /\ pc = "cycle"
  /\ cur = 1
  /\ opportunities \in {find_opportunities(raws) : raws \in InterleavedLists}
  /\ ranked = <<>>
  /\ review = <<>>
  /\ trades_executed = 0
  /\ \E ls \in [Strategies -> UNION {LedgersBefore(s) : s \in Strategies}] :
       /\ \A s \in Strategies : ls[s] \in LedgersBefore(s)
       /\ pm = [s \in Strategies |-> ls[s].p]
       /\ db = [s \in Strategies |-> ls[s].d]
  /\ today = 0
  /\ cycles = 1
  /\ market \in [Symbols -> InterleavedQuotes]
  /\ rollover = FALSE
  /\ turn = [s \in Strategies |-> Entering]
  /\ strategies = StrategyOrder
  /\ research = [first |-> "none", finished |-> <<>>]
  /\ call = [op |-> "cycle", n |-> 0, pm |-> pm, db |-> db,
             opportunities |-> opportunities]

\* what the steps of one strategy leave alone
OthersUnchanged ==
  UNCHANGED <<is_running, pc, cur, ranked, review, trades_executed, today,
              cycles, market, rollover, strategies, call>>

\* one iteration of the trade loop of execute_strategy_trades on the ledger
\* l, the candidates left to walk and the count of executed trades
trade_step(l, cfg, left, executed) ==
  LET opportunity == Head(left)
  IN  IF should_take_position(opportunity, l.p, cfg) # "Accept"
         \/ opportunity.current_price = 0
      THEN [l |-> l, left |-> Tail(left), executed |-> executed]
      ELSE LET shares == calculate_position_size(cfg, opportunity)
                           \div opportunity.current_price
           IN  [l |-> add_position(l, opportunity.symbol, shares,
                                   opportunity.current_price,
                                   opportunity.score, opportunity.risk_score),
                left |-> IF executed + 1 >= max_trades(cfg)
                         THEN <<>> ELSE Tail(left),
                executed |-> executed + 1]

\* Faulty variant of InterleavedRank: the shared list is cut down to the
\* candidates this strategy will walk.
InterleavedRank_TruncatesList ==
  /\ pc = "cycle"
  /\ \E s \in Strategies :
       LET ranked_opportunities ==
             analyze_and_rank_opportunities(opportunities)
           n == Min(max_trades(StrategyConfig[s]), Len(ranked_opportunities))
       IN  /\ turn[s].pc = "rank"
           /\ opportunities' =
                [i \in 1..Min(n, Len(opportunities)) |->
                   Scored(opportunities[i])]
           /\ turn' = [turn EXCEPT ![s] =
                [pc |-> "review",
                 ranked |-> SubSeq(ranked_opportunities, 1, n),
                 review |-> Keys(pm[s].positions),
                 trades_executed |-> 0]]
           /\ research' = IF research.first = "none"
                          THEN [research EXCEPT !.first = s] ELSE research
  /\ UNCHANGED <<pm, db>>
  /\ OthersUnchanged

\* analyze_and_rank_opportunities and the snapshot of the position keys
InterleavedRank ==
  /\ pc = "cycle"
  /\ \E s \in Strategies :
       LET ranked_opportunities ==
             analyze_and_rank_opportunities(opportunities)
           n == Min(max_trades(StrategyConfig[s]), Len(ranked_opportunities))
       IN  /\ turn[s].pc = "rank"
           /\ opportunities' =
                [i \in 1..Len(opportunities) |-> Scored(opportunities[i])]
           /\ turn' = [turn EXCEPT ![s] =
                [pc |-> "review",
                 ranked |-> SubSeq(ranked_opportunities, 1, n),
                 review |-> Keys(pm[s].positions),
                 trades_executed |-> 0]]
           /\ research' = IF research.first = "none"
                          THEN [research EXCEPT !.first = s] ELSE research
  /\ UNCHANGED <<pm, db>>
  /\ OthersUnchanged

\* one iteration of review_positions, or its end
InterleavedReview ==
  /\ pc = "cycle"
  /\ \E s \in Strategies :
       /\ turn[s].pc = "review"
       /\ IF turn[s].review = <<>>
          THEN /\ turn' = [turn EXCEPT ![s].pc = "trade"]
               /\ UNCHANGED <<pm, db>>
          ELSE LET sym == Head(turn[s].review)
                   l == review_position(Ledger(s), StrategyConfig[s], sym,
                                        market[sym])
               IN  /\ pm' = [pm EXCEPT ![s] = l.p]
                   /\ db' = [db EXCEPT ![s] = l.d]
                   /\ turn' = [turn EXCEPT ![s].review = Tail(@)]
  /\ UNCHANGED <<opportunities, research>>
  /\ OthersUnchanged

\* one iteration of the trade loop: admission and open
InterleavedTrade ==
  /\ pc = "cycle"
  /\ \E s \in Strategies :
       /\ turn[s].pc = "trade"
       /\ turn[s].ranked # <<>>
       /\ LET r == trade_step(Ledger(s), StrategyConfig[s], turn[s].ranked,
                              turn[s].trades_executed)
          IN  /\ pm' = [pm EXCEPT ![s] = r.l.p]
              /\ db' = [db EXCEPT ![s] = r.l.d]
              /\ turn' = [turn EXCEPT ![s].ranked = r.left,
                                      ![s].trades_executed = r.executed]
  /\ UNCHANGED <<opportunities, research>>
  /\ OthersUnchanged

\* update_portfolio at the end of execute_strategy_trades
InterleavedFinish ==
  /\ pc = "cycle"
  /\ \E s \in Strategies :
       /\ turn[s].pc = "trade"
       /\ turn[s].ranked = <<>>
       /\ LET syms == Keys(pm[s].positions)
          IN  pm' = [pm EXCEPT ![s] =
                update_portfolio(Ledger(s), syms,
                                 [i \in 1..Len(syms) |-> market[syms[i]]]).p]
       /\ turn' = [turn EXCEPT ![s].pc = "done"]
       /\ research' = [research EXCEPT !.finished = Append(@, s)]
  /\ UNCHANGED <<opportunities, db>>
  /\ OthersUnchanged

InterleavedNext ==
  \/ InterleavedRank
  \/ InterleavedReview
  \/ InterleavedTrade
  \/ InterleavedFinish

InterleavedSpec == InterleavedInit /\ [][InterleavedNext]_vars

\* The same cycle as the program runs it: the loops of review_positions and
\* of the trades, execute_strategy_trades, and the loop of
\* daily_trading_cycle over the strategies in configuration order.
RECURSIVE review_positions(_, _, _, _)
review_positions(l, cfg, syms, lookup) ==
  IF syms = <<>> THEN l
  ELSE review_positions(review_position(l, cfg, Head(syms),
                                        lookup[Head(syms)]),
                        cfg, Tail(syms), lookup)

RECURSIVE trade_loop(_, _, _, _)
trade_loop(l, cfg, left, executed) ==
  IF left = <<>> THEN l
  ELSE LET r == trade_step(l, cfg, left, executed)
       IN  trade_loop(r.l, cfg, r.left, r.executed)

execute_strategy_trades(l, cfg, opps, lookup) ==
  LET ranked_opportunities == analyze_and_rank_opportunities(opps)
      reviewed == review_positions(l, cfg, Keys(l.p.positions), lookup)
      traded == trade_loop(reviewed, cfg,
                  SubSeq(ranked_opportunities, 1,
                         Min(max_trades(cfg), Len(ranked_opportunities))), 0)
      syms == Keys(traded.p.positions)
  IN  [traded EXCEPT !.p =
         update_portfolio(traded, syms,
                          [i \in 1..Len(syms) |-> lookup[syms[i]]]).p]

RECURSIVE daily_trading_cycle(_, _, _, _)
daily_trading_cycle(i, ls, opps, lookup) ==
  IF i > Len(StrategyOrder) THEN ls
  ELSE LET s == StrategyOrder[i]
       IN  daily_trading_cycle(
             i + 1,
             [ls EXCEPT ![s] = execute_strategy_trades(ls[s], StrategyConfig[s],
                                                       opps, lookup)],
             [k \in 1..Len(opps) |-> Scored(opps[k])],
             lookup)


\* ================================================================ claims
\* --- observations shared by the claims
Walked == turn.walked
Reviews == turn.reviews
TurnConfig == StrategyConfig[turn.strategy]
InTurn == turn.strategy # "none"

\* candidates on which the admission decision is evaluated in every
\* reachable portfolio state: the universe of discovery and boundary cases
AdmissionProbes ==
  { Scored(u) : u \in Universe \cup
      { Raw("Z", 10000, 400, 100, 1000, 5, 10, 0),       \* score exactly .1
        Raw("Z", 10000, 400, 100, 1000, -20, -50, -30),  \* return floored to 0
        Raw("Z", 10000, 160, 100, 1000, 50, 10, 0),      \* size 368 dollars
        Raw("Z", 10000, 295, 100, 1000, 50, 10, 0) } }   \* size 341 dollars

\* --- C1: Ledger.open is applied to a symbol only when that symbol is Absent
\* in the strategy, so no BUY overwrites an Open position and every strategy
\* holds at most one position per symbol.
C1_OpenOnlyWhenAbsent ==
  /\ \A i \in 1..Len(Walked) : Walked[i].shares # None => ~Walked[i].held
  /\ \A s \in Strategies :
       \A i, j \in 1..Len(pm[s].positions) :
         i # j => pm[s].positions[i].symbol # pm[s].positions[j].symbol

\* a turn in which a held symbol was offered again and another was opened
C1_Witness ==
  \E i, j \in 1..Len(Walked) :
    /\ Walked[i].decision = "DuplicatePosition"
    /\ Walked[j].opened

\* --- C2: closing an Open position at a price credits shares * price to the
\* capital, adds shares * (price - avg_price) to total_realized_pnl and to
\* daily_pnl, and leaves the symbol Absent.
C2_CloseAccounting ==
  [][ (pc = "review" /\ review # <<>>) =>
        LET s   == Strategy
            sym == Head(review)
            position == Get(pm[s].positions, sym)
            e   == Reviews'[Len(Reviews')]
            realized == position.shares * (e.price - position.avg_price)
        IN  e.reason # "none" =>
              /\ ~has_position(pm'[s].positions, sym)
              /\ pm'[s].account_balance =
                   pm[s].account_balance + position.shares * e.price
              /\ pm'[s].total_pnl = pm[s].total_pnl + realized
              /\ pm'[s].daily_pnl = pm[s].daily_pnl + realized ]_vars

\* a position was closed at a profit in the current turn
C2_Witness ==
  \E i \in 1..Len(Reviews) :
    /\ Reviews[i].reason = "Take Profit"
    /\ ~has_position(pm[turn.strategy].positions, Reviews[i].symbol)
    /\ pm[turn.strategy].total_pnl # 0

\* --- C3: in every reachable portfolio state (after opens, closes and
\* setBalance) admission accepts no candidate whose simulated position size
\* exceeds the strategy's available capital.
C3_AcceptWithinCapital ==
  \A s \in Strategies : \A o \in AdmissionProbes :
    should_take_position(o, pm[s], StrategyConfig[s]) = "Accept" =>
      calculate_position_size(StrategyConfig[s], o) <= pm[s].account_balance

\* after a setBalance and a close, one candidate was accepted and a later one
\* rejected for lack of capital
C3_Witness ==
  /\ InTurn
  /\ turn.bal0 \in Balances
  /\ \E i \in 1..Len(Reviews) : Reviews[i].reason # "none"
  /\ \E i, j \in 1..Len(Walked) :
       /\ Walked[i].opened
       /\ Walked[j].decision = "InsufficientCapital"

\* --- C4: admission accepts iff the five checks pass, every boundary
\* inclusive; otherwise the reason is that of the first failing check in the
\* order InsufficientCapital, DuplicatePosition, RiskTooHigh, DailyLossLimit,
\* ScoreTooLow.
AdmissionChecks(o, p, cfg) ==
  << calculate_position_size(cfg, o) <= p.account_balance,
     \A i \in 1..Len(p.positions) : p.positions[i].symbol # o.symbol,
     o.risk_score <= cfg.max_risk_score,
     p.daily_pnl >= -cfg.max_daily_loss,
     o.score >= cfg.min_score_threshold >>

AdmissionReasons ==
  << "InsufficientCapital", "DuplicatePosition", "RiskTooHigh",
     "DailyLossLimit", "ScoreTooLow" >>

C4_AdmissionDecision ==
  \A s \in Strategies : \A o \in AdmissionProbes :
    LET checks   == AdmissionChecks(o, pm[s], StrategyConfig[s])
        failing  == {i \in 1..5 : ~checks[i]}
        decision == should_take_position(o, pm[s], StrategyConfig[s])
    IN  /\ (decision = "Accept") <=> (failing = {})
        /\ failing # {} =>
             decision = AdmissionReasons[
                          CHOOSE i \in failing : \A j \in failing : i <= j]

\* a walk met the daily loss limit: capital, duplicate and risk checks passed
\* first; and a probe sits on the boundary of the capital check
C4_Witness ==
  /\ \E i \in 1..Len(Walked) : Walked[i].decision = "DailyLossLimit"
  /\ \E o \in AdmissionProbes :
       calculate_position_size(TurnConfig, o) =
         pm[turn.strategy].account_balance

\* --- C5: evaluating the exit of an Open position at a price closes it with
\* Stop Loss iff pct <= -stop_loss_pct, else with Take Profit iff
\* pct >= take_profit_pct, else leaves the ledger as it was; with
\* avg_price 100 and stop_loss_pct 3 the price 97.00 closes and 97.01 does not.
C5_ExitEvaluation ==
  [][ (pc = "review" /\ review # <<>>) =>
        LET s   == Strategy
            cfg == StrategyConfig[s]
            sym == Head(review)
            position == Get(pm[s].positions, sym)
            e   == Reviews'[Len(Reviews')]
            change == (e.price - position.avg_price) * 100
            stop   == change <= -cfg.stop_loss_percentage * position.avg_price
            take   == change >= cfg.take_profit_percentage * position.avg_price
            open   == has_position(pm'[s].positions, sym)
        IN  e.price > 0 =>
              /\ stop => ~open /\ e.reason = "Stop Loss"
              /\ ~stop /\ take => ~open /\ e.reason = "Take Profit"
              /\ ~stop /\ ~take =>
                   /\ open
                   /\ pm'[s].account_balance = pm[s].account_balance
                   /\ pm'[s].total_pnl = pm[s].total_pnl
                   /\ pm'[s].daily_pnl = pm[s].daily_pnl
                   /\ pm'[s].trades_today = pm[s].trades_today
                   /\ Keys(pm'[s].positions) = Keys(pm[s].positions)
                   /\ db' = db
              /\ (position.avg_price = 10000 /\ cfg.stop_loss_percentage = 3) =>
                   /\ e.price = 9700 => ~open
                   /\ e.price = 9701 => open ]_vars

\* a position bought at 100 was stopped out at exactly 97.00
C5_Witness ==
  \E i \in 1..Len(Reviews) :
    /\ Reviews[i].avg_price = 10000
    /\ Reviews[i].price = 9700
    /\ Reviews[i].reason = "Stop Loss"


\* --- more observations
Opened == {i \in 1..Len(Walked) : Walked[i].opened}

WalkOver == pc = "trade" /\ ranked = <<>>

RECURSIVE Proceeds(_)
Proceeds(rs) ==
  IF rs = <<>> THEN 0
  ELSE (IF Head(rs).reason # "none" THEN Head(rs).shares * Head(rs).price
        ELSE 0) + Proceeds(Tail(rs))

\* --- C6: in every reachable state each strategy's trades_today is at most
\* its max_daily_trades, also over several cycles.
C6_TradesTodayWithinLimit ==
  \A s \in Strategies :
    pm[s].trades_today <= StrategyConfig[s].max_daily_trades

\* --- C7: in one cycle a strategy opens at most max_daily_trades positions,
\* walking the candidates in rank order; with max_daily_trades = 1 and an
\* admissible first-ranked candidate it opens that candidate only.
C7_AtMostMaxTradesPerCycle ==
  InTurn =>
    /\ Cardinality(Opened) <= TurnConfig.max_daily_trades
    /\ Len(Walked) <= Len(turn.ranking)
    /\ \A i \in 1..Len(Walked) : Walked[i].symbol = turn.ranking[i].symbol
    /\ (TurnConfig.max_daily_trades = 1 /\ WalkOver /\ Len(Walked) >= 1
          /\ Walked[1].decision = "Accept" /\ Walked[1].shares > 0) =>
         /\ Opened = {1}
         /\ Len(pm[turn.strategy].positions) <= Cardinality(turn.held0) + 1

\* the strategy with max_daily_trades = 1 opened the first of three ranked
\* candidates and its walk is over
C7_Witness ==
  /\ InTurn
  /\ TurnConfig.max_daily_trades = 1
  /\ WalkOver
  /\ Len(turn.ranking) = 3
  /\ Opened = {1}

\* --- C8: a rejected candidate is skipped and the next-ranked one is
\* considered: a walk that ends with fewer than max_daily_trades positions
\* opened has left no admissible candidate of the ranked list unvisited.
C8_WalksWholeList ==
  (InTurn /\ WalkOver /\ Cardinality(Opened) < TurnConfig.max_daily_trades) =>
    \A i \in (Len(Walked) + 1)..Len(turn.ranking) :
      should_take_position(turn.ranking[i], pm[turn.strategy], TurnConfig)
        # "Accept"

\* --- C9: trades_today and daily_pnl are reset on every day rollover: the
\* first cycle after a rollover processes its strategies starting from 0.
C9_ResetOnRollover ==
  (pc = "strategy" /\ cur = 1 /\ rollover) =>
    \A s \in Strategies : pm[s].trades_today = 0 /\ pm[s].daily_pnl = 0

\* --- C10: every position open at the start of a strategy's turn has had its
\* review (mark to market, exit evaluation) before the first admission
\* decision, and that decision sees the capital returned by the closes.
C10_ReviewBeforeAdmission ==
  InTurn =>
    /\ (pc = "trade" \/ Walked # <<>>) =>
         /\ review = <<>>
         /\ turn.held0 = {Reviews[i].symbol : i \in 1..Len(Reviews)}
    /\ Walked # <<>> =>
         Walked[1].capital = turn.bal0 + Proceeds(Reviews)

\* a candidate was accepted that the capital at the start of the turn could
\* not pay for: the capital came from a close of the same turn
C10_Witness ==
  /\ InTurn
  /\ \E i \in 1..Len(Walked) :
       /\ Walked[i].opened
       /\ turn.bal0 < calculate_position_size(TurnConfig, turn.ranking[i])
  /\ Proceeds(Reviews) > 0


\* --- C11: every cycle makes exactly one discovery call (none when the
\* cycle is skipped because no strategy is loaded), and every strategy
\* processed in the cycle is given the result of that call.
C11_OneDiscoveryPerCycle ==
  /\ research.calls = (IF strategies = <<>> THEN 0 ELSE cycles)
  /\ InTurn => turn.given = research.result

\* the second strategy of the second cycle works on a non-empty shared list
C11_Witness ==
  /\ InTurn
  /\ cur = 2
  /\ cycles = 2
  /\ research.calls = 2
  /\ Len(turn.given) >= 2

\* --- C12: a ledger operation, a setBalance or a reset applied to one
\* strategy leaves the capital, positions, total_realized_pnl, daily_pnl,
\* trades_today and trade log of every other strategy unchanged.
Touched == {s \in Strategies : pm'[s] # pm[s] \/ db'[s] # db[s]}

C12_OtherStrategiesUnchanged ==
  [][ /\ Cardinality(Touched) <= 1
      /\ pc \in {"strategy", "review", "trade"} => Touched \subseteq {Strategy}
    ]_vars

\* both strategies hold positions and have trades on record while the turn
\* of the second one changes its ledger
C12_Witness ==
  /\ InTurn
  /\ turn.strategy = "s2"
  /\ Opened # {}
  /\ pm["s1"].positions # <<>>
  /\ db["s1"].trades # <<>>


\* --- observations of a call made on the ledger in isolation
\* the step is a call of open
Opening == call'.n = call.n + 1 /\ call'.op = "open"

Account == pm[call'.strategy]
AccountAfter == pm'[call'.strategy]
Store == db[call'.strategy]
StoreAfter == db'[call'.strategy]

\* --- C13: open(symbol, shares, price) with shares * price greater than the
\* available capital is rejected and leaves capital, positions, trade log and
\* trades_today unchanged, whether or not admission was consulted.
C13_OpenRejectsCapitalExceeded ==
  [][ (Opening /\ call'.shares * call'.price > Account.account_balance) =>
        /\ AccountAfter = Account
        /\ StoreAfter = Store ]_vars

\* --- C14: an open whose record is stored debits the capital by exactly
\* shares * price, creates the position with that share count, avg_price =
\* current_price = price and unrealized P&L 0, appends one BUY trade record
\* and increments trades_today by exactly 1.
C14_OpenEffects ==
  [][ (Opening /\ call'.shares > 0 /\ Store.tables) =>
        LET position == Get(AccountAfter.positions, call'.symbol)
            trade == StoreAfter.trades[Len(StoreAfter.trades)]
        IN  /\ AccountAfter.account_balance =
                 Account.account_balance - call'.shares * call'.price
            /\ has_position(AccountAfter.positions, call'.symbol)
            /\ position.shares = call'.shares
            /\ position.avg_price = call'.price
            /\ position.current_price = call'.price
            /\ position.pnl = 0
            /\ Len(StoreAfter.trades) = Len(Store.trades) + 1
            /\ SubSeq(StoreAfter.trades, 1, Len(Store.trades)) = Store.trades
            /\ trade.type = "BUY"
            /\ trade.symbol = call'.symbol
            /\ trade.shares = call'.shares
            /\ trade.price = call'.price
            /\ AccountAfter.trades_today = Account.trades_today + 1
            /\ AccountAfter.total_pnl = Account.total_pnl
            /\ AccountAfter.daily_pnl = Account.daily_pnl ]_vars

\* the last call opened a position of 2 shares and its BUY is on record
C14_Witness ==
  /\ call.op = "open"
  /\ call.shares = 2
  /\ has_position(pm[call.strategy].positions, call.symbol)
  /\ Get(pm[call.strategy].positions, call.symbol).shares = 2
  /\ db[call.strategy].trades # <<>>
  /\ db[call.strategy].trades[Len(db[call.strategy].trades)].type = "BUY"
  /\ pm[call.strategy].trades_today >= 1

\* --- C15: when floor(position_size / price) <= 0 for an accepted candidate,
\* no position is created, no trade record is appended, and the capital and
\* trades_today of the strategy are unchanged.
C15_NegligibleSize ==
  [][ (pc = "trade" /\ ranked # <<>>) =>
        LET s   == Strategy
            cfg == StrategyConfig[s]
            o   == Head(ranked)
        IN  ( /\ should_take_position(o, pm[s], cfg) = "Accept"
              /\ o.current_price > 0
              /\ calculate_position_size(cfg, o) \div o.current_price <= 0 ) =>
              /\ pm'[s] = pm[s]
              /\ db'[s] = db[s]
              /\ ~has_position(pm'[s].positions, o.symbol) ]_vars

\* an accepted candidate came to 0 shares
C15_Witness ==
  \E i \in 1..Len(Walked) :
    /\ Walked[i].decision = "Accept"
    /\ Walked[i].shares = 0
    /\ ~Walked[i].opened


\* --- observations of a sizing call
SizeCap == (call.cfg.account_balance * call.cfg.max_position_size) \div 100

SizeRaw ==
  (((call.cfg.account_balance * call.cfg.risk_percentage) \div 100)
     * (2000 - call.risk_score)) \div 1000

\* capital 10000, risk 2 percent, cap 5 percent, risk_score 0.4, price 50
SizeExample ==
  /\ call.cfg.account_balance = 1000000
  /\ call.cfg.risk_percentage = 2
  /\ call.cfg.max_position_size = 5
  /\ call.risk_score = 400
  /\ call.price = 5000

\* --- C16 as stated: for every config and risk_score in [0,1] the position
\* size is never above capital * max_position_pct / 100 and never below 100
\* dollars; the example gives size 320 and 6 shares.
C16_SizeWithinCapAndFloor ==
  call.op = "size" =>
    /\ call.size <= SizeCap
    /\ call.size >= MinPosition
    /\ SizeExample => call.size = 32000 /\ call.shares = 6

\* --- C16 amended: the position size is max(min(risk_amount * (1 + (1 -
\* risk_score)), cap), 100): never below 100 dollars, never above the larger
\* of the cap and 100 dollars, hence within the cap whenever the cap is at
\* least 100 dollars; the example gives size 320 and 6 shares.
C16_SizeFloorOverridesCap ==
  call.op = "size" =>
    /\ call.size = Max(Min(SizeRaw, SizeCap), MinPosition)
    /\ call.size >= MinPosition
    /\ call.size <= Max(SizeCap, MinPosition)
    /\ SizeCap >= MinPosition => call.size <= SizeCap
    /\ SizeExample => call.size = 32000 /\ call.shares = 6

\* a config whose cap is below 100 dollars: the size is the 100 dollar floor
C16_Witness ==
  /\ call.op = "size"
  /\ SizeCap < MinPosition
  /\ call.size = MinPosition
  /\ call.shares >= 1

\* --- C17: ranking returns the candidates in descending order of score,
\* candidates of equal score keep their discovery order, and ranking the
\* same candidates again gives the same order.
DiscoveryIndex(sym) ==
  CHOOSE k \in 1..Len(call.input) : call.input[k].symbol = sym

C17_StableDescendingRanking ==
  call.op = "rank" =>
    LET q == call.input
        r == call.result
    IN  /\ Len(r) = Len(q)
        /\ {r[i].symbol : i \in 1..Len(r)} = {q[k].symbol : k \in 1..Len(q)}
        /\ \A i \in 1..Len(r) : r[i] = Scored(q[DiscoveryIndex(r[i].symbol)])
        /\ \A i, j \in 1..Len(r) :
             i < j =>
               /\ r[i].score >= r[j].score
               /\ r[i].score = r[j].score =>
                    DiscoveryIndex(r[i].symbol) < DiscoveryIndex(r[j].symbol)
        /\ analyze_and_rank_opportunities(
             [k \in 1..Len(q) |-> Scored(q[k])]) = r
        /\ analyze_and_rank_opportunities(r) = r

\* three candidates, two of them of equal score, that discovery reported in
\* another order than their rank
C17_Witness ==
  /\ call.op = "rank"
  /\ Len(call.result) = 3
  /\ call.result[1].score = call.result[2].score
  /\ call.result[2].score > call.result[3].score
  /\ call.input[1].symbol = call.result[3].symbol

\* --- C18: for all finite, non-negative volatility, volume_ratio and
\* market_cap (zero replaced by the defaults) the risk_score is a number in
\* [0,1].
C18_RiskScoreInUnitInterval ==
  call.op = "risk" =>
    /\ ~call.result.nan
    /\ call.result.value \in 0..1000

\* --- C19: score = potential_return / (risk_score + 0.1), with
\* potential_return floored at 0, is non-decreasing in potential_return and
\* non-increasing in risk_score, the other one fixed, and never negative.
C19_ScoreMonotone ==
  call.op = "score" =>
    LET a == call.a
        b == call.b
    IN  /\ a.potential_return >= 0
        /\ a.score >= 0
        /\ a.score = (a.potential_return * 1000) \div (a.risk_score + 100)
        /\ (a.risk_score = b.risk_score
              /\ a.potential_return <= b.potential_return) =>
             a.score <= b.score
        /\ (a.potential_return = b.potential_return
              /\ a.risk_score <= b.risk_score) =>
             a.score >= b.score

\* a candidate whose weighted return is negative scores 0, below a candidate
\* of the same risk and positive return
C19_Witness ==
  /\ call.op = "score"
  /\ call.a.technical_score < 0
  /\ call.a.potential_return = 0
  /\ call.a.score = 0
  /\ call.a.risk_score = call.b.risk_score
  /\ call.b.score > 0


\* --- C20: a strategy whose initialization failed appears in the status
\* output with is_active = false, and no ranking, exit evaluation, admission
\* or open is ever performed for it, while the other strategies are processed.
Failed == Strategies \ Loaded

C20_FailedStrategyInStatus ==
  \A s \in Failed :
    /\ s \in DOMAIN get_status.strategies
    /\ get_status.strategies[s].is_active = FALSE
    /\ turn.strategy # s
    /\ pm[s].positions = <<>>
    /\ db[s].trades = <<>>


\* C21: an error raised while one strategy is processed does not stop the
\* cycle.  From a state in which an error was raised for the current
\* strategy, every step stays with that strategy, or passes to the next
\* strategy of the configuration order, or, after the last one, ends the
\* cycle with the wait for the next day; a strategy whose turn has come is
\* processed next; and the run loop keeps running throughout.
C21_ErrorDoesNotStopCycle ==
  [][ /\ (InTurn /\ pc \in {"review", "trade"} /\ ErrorInTurn) =>
           /\ is_running' /\ pc' # "done"
           /\ \/ cur' = cur /\ pc' \in {"review", "trade"}
              \/ cur < Len(strategies) /\ cur' = cur + 1 /\ pc' = "strategy"
              \/ cur = Len(strategies) /\ pc' = "wait"
      /\ pc = "strategy" =>
           /\ is_running' /\ pc' = "review" /\ cur' = cur
           /\ turn'.strategy = strategies[cur] ]_vars

\* the first of two loaded strategies raised an error in its trade loop and
\* the walk of its candidates is over
C21_Witness ==
  /\ InTurn /\ WalkOver
  /\ cur = 1 /\ Len(strategies) = 2
  /\ \E i \in 1..Len(Walked) :
       Walked[i].decision = "Accept" /\ Walked[i].shares = None

Reviewed == turn'.reviews[Len(turn'.reviews)]

\* C23: when the price lookup of a reviewed position fails or gives no
\* positive price, the step leaves the ledger and the trade log of every
\* strategy unchanged (the position is neither marked to market nor closed)
\* and the pass goes on with the remaining positions; the pass ends only when
\* every position held at its start has been looked at.
C23_FailedLookupSkipsPosition ==
  [][ /\ (Len(turn'.reviews) = Len(turn.reviews) + 1 /\ Reviewed.price <= 0) =>
           /\ pm' = pm /\ db' = db
           /\ Reviewed.symbol = Head(review)
           /\ review' = Tail(review) /\ pc' = "review"
      /\ (pc = "review" /\ pc' = "trade") =>
           turn.held0 = {Reviews[i].symbol : i \in 1..Len(Reviews)} ]_vars

\* a pass in which the lookup failed for one position and a position after
\* it was marked to market
C23_Witness ==
  /\ InTurn
  /\ \E i, j \in 1..Len(Reviews) :
       /\ i < j
       /\ Reviews[i].price <= 0
       /\ has_position(pm[turn.strategy].positions, Reviews[i].symbol)
       /\ Reviews[j].price > 0

\* the symbols a strategy holds positions of
Held(p) == Range(Keys(p.positions))

\* C24: once shutdown has been requested (is_running cleared on a started
\* agent) no new cycle is started: no step makes a discovery call, begins a
\* cycle or the processing of a strategy, or adds a position to any ledger,
\* and is_running stays cleared.
C24_NoCycleAfterShutdown ==
  [][ (pc # "init" /\ ~is_running) =>
        /\ ~is_running'
        /\ research' = research
        /\ cycles' = cycles
        /\ pc' \in {"wait", "retry", "loop", "done"}
        /\ \A s \in Strategies : Held(pm'[s]) \subseteq Held(pm[s]) ]_vars

\* run() has returned after a shutdown requested while a cycle was still due
\* and a strategy held a position
C24_Witness ==
  /\ pc = "done" /\ ~is_running
  /\ cycles < MaxCycles
  /\ research.calls >= 1
  /\ \E s \in Loaded : pm[s].positions # <<>>

\* a step that answers a request op of the dashboard
Answers(op) == call' # call /\ call'.op = op

\* C25: set-balance for a loaded strategy sets the account_balance of that
\* strategy to the requested amount and changes nothing else of any ledger
\* or trade log (positions, total_pnl, daily_pnl, trades_today stay); for any
\* other name the answer is an error and no ledger or trade log changes.
C25_SetBalanceFrame ==
  [][ Answers("set_balance") =>
        /\ db' = db
        /\ IF call'.strategy \in Loaded
           THEN /\ ~call'.error
                /\ pm'[call'.strategy].account_balance = call'.balance
                /\ pm' = [pm EXCEPT
                            ![call'.strategy].account_balance = call'.balance]
           ELSE call'.error /\ pm' = pm ]_vars

\* the balance of a strategy that holds a position, has realized a loss and
\* has traded today was set to an amount different from what it had
C25_Witness ==
  /\ call.op = "set_balance" /\ ~call.error
  /\ pm[call.strategy].account_balance = call.balance
  /\ pm[call.strategy].positions # <<>>
  /\ pm[call.strategy].trades_today > 0
  /\ pm[call.strategy].total_pnl # 0
  /\ call.was.account_balance # call.balance

\* a set-balance request for a strategy that is not loaded was answered
C25_UnknownStrategy ==
  call.op = "set_balance" /\ call.error

\* C26: a reset of a loaded strategy, from whatever state, leaves it with the
\* account_balance of its configuration, no positions, an empty trade log
\* and total_pnl = daily_pnl = trades_today = 0.
C26_ResetRestoresConfiguredState ==
  [][ Answers("reset") =>
        LET s == call'.strategy
        IN  /\ s \in Loaded /\ ~call'.error
            /\ pm'[s].account_balance = StrategyConfig[s].account_balance
            /\ pm'[s].positions = <<>>
            /\ db'[s].trades = <<>>
            /\ pm'[s].total_pnl = 0
            /\ pm'[s].daily_pnl = 0
            /\ pm'[s].trades_today = 0 ]_vars

\* a strategy was reset whose balance had been set through the dashboard
\* (trading alone cannot bring it under a tenth of the configured one) and
\* which held a position and had realized a profit or loss
C26_Witness ==
  /\ call.op = "reset"
  /\ call.was.positions # <<>>
  /\ call.was.total_pnl # 0
  /\ call.was.trades_today > 0
  /\ call.was.account_balance * 10 <
       StrategyConfig[call.strategy].account_balance
  /\ pm[call.strategy].account_balance =
       StrategyConfig[call.strategy].account_balance
  /\ pm[call.strategy].positions = <<>>

\* the entry a step of the trade loop adds to the record of the walk
Decided == turn'.walked[Len(turn'.walked)]

\* C27: the admission decision has no side effect.  Whatever the decision on
\* a candidate, the step of the trade loop that takes it leaves every ledger
\* and trade log as it was, except for the call of add_position that follows
\* an acceptance, and that call starts from the ledger as it was before the
\* decision.
C27_AdmissionSideEffectFree ==
  [][ Len(turn'.walked) = Len(turn.walked) + 1 =>
        LET s == turn.strategy
            o == Head(ranked)
        IN  /\ Decided.symbol = o.symbol
            /\ Decided.decision = should_take_position(o, pm[s], TurnConfig)
            /\ \A x \in Strategies \ {s} : pm'[x] = pm[x] /\ db'[x] = db[x]
            /\ IF Decided.shares = None
               THEN pm' = pm /\ db' = db
               ELSE LET l == add_position(Ledger(s), o.symbol, Decided.shares,
                                          o.current_price, o.score,
                                          o.risk_score)
                    IN  /\ Decided.decision = "Accept"
                        /\ pm'[s] = l.p
                        /\ db'[s] = l.d ]_vars

\* a walk in which one candidate was turned down and another accepted, by a
\* strategy that holds a position and has traded today
C27_Witness ==
  /\ InTurn
  /\ pm[turn.strategy].positions # <<>>
  /\ pm[turn.strategy].trades_today > 0
  /\ \E i, j \in 1..Len(Walked) :
       /\ Walked[i].decision \notin {"Accept"}
       /\ Walked[i].capital > 0
       /\ Walked[j].decision = "Accept"

\* C28: the candidates are not changed by ranking, admission or execution:
\* while the strategies are processed the shared list is, element by element
\* and field by field, the list the discovery call of the cycle returned, and
\* it is the list every strategy was given.
C28_CandidatesUnchanged ==
  pc \in {"strategy", "review", "trade"} =>
    /\ ~research.failed
    /\ opportunities = research.result
    /\ (pc # "strategy" \/ cur > 1) => turn.given = research.result

\* the second strategy walks a list of at least two candidates after the
\* first strategy ranked it and opened a position from it
C28_Witness ==
  /\ InTurn /\ pc = "trade" /\ cur = 2 /\ cycles = 1
  /\ Len(research.result) >= 2
  /\ pm[strategies[1]].positions # <<>>
  /\ Len(Walked) >= 1

\* the ledgers after the cycle run strategy by strategy in configuration
\* order, from the ledgers and the list the cycle started with
Sequential ==
  daily_trading_cycle(1, [s \in Strategies |->
                            [p |-> call.pm[s], d |-> call.db[s]]],
                      call.opportunities, market)

\* C29: whatever the order or interleaving of the per-strategy steps of a
\* cycle, a strategy that has finished has the ledger and the trade log
\* that the sequential run in configuration order gives it.
C29_OrderIndependent ==
  \A s \in Strategies :
    (pc = "cycle" /\ turn[s].pc = "done") =>
      /\ pm[s] = Sequential[s].p
      /\ db[s] = Sequential[s].d

\* both strategies have finished, the second of the configuration order
\* first although the first one ranked first, and both opened a position
C29_Witness ==
  /\ pc = "cycle"
  /\ research.first = StrategyOrder[1]
  /\ research.finished = <<StrategyOrder[2], StrategyOrder[1]>>
  /\ \A s \in Strategies :
       /\ Len(db[s].trades) > Len(call.db[s].trades)
       /\ pm[s] # call.pm[s]

\* the trade log of a strategy
Log(s) == db[s].trades
LogAfter(s) == db'[s].trades

\* C30: the trade log is append-only.  A call of open, markToMarket,
\* evaluateExit or close leaves the records already in the log as they are;
\* it appends one BUY record when it is an open that completed, one SELL
\* record when it closed a position, and nothing otherwise.
C30_TradeLogAppendOnly ==
  [][ call'.n = call.n + 1 =>
        LET s == call'.strategy
            opened == pm'[s].trades_today = pm[s].trades_today + 1
            closed == Held(pm[s]) \ Held(pm'[s])
            last == LogAfter(s)[Len(LogAfter(s))]
        IN  /\ Len(LogAfter(s)) = Len(Log(s)) + (IF opened THEN 1 ELSE 0)
                                            + Cardinality(closed)
            /\ SubSeq(LogAfter(s), 1, Len(Log(s))) = Log(s)
            /\ opened => last.type = "BUY" /\ last.symbol = call'.symbol
            /\ closed # {} => last.type = "SELL" /\ last.symbol \in closed
     ]_vars

\* the part of C30 that holds: no call modifies or removes a record, and a
\* record is appended only by an open (BUY) or by a close (SELL)
C30_RecordsKept ==
  [][ call'.n = call.n + 1 =>
        LET s == call'.strategy
            last == LogAfter(s)[Len(LogAfter(s))]
        IN  /\ Len(LogAfter(s)) \in {Len(Log(s)), Len(Log(s)) + 1}
            /\ SubSeq(LogAfter(s), 1, Len(Log(s))) = Log(s)
            /\ Len(LogAfter(s)) = Len(Log(s)) + 1 =>
                 \/ /\ last.type = "BUY" /\ call'.op = "open"
                    /\ has_position(pm'[s].positions, last.symbol)
                 \/ /\ last.type = "SELL"
                    /\ call'.op \in {"close", "evaluateExit"}
                    /\ last.symbol \in Held(pm[s]) \ Held(pm'[s]) ]_vars

\* C31: after a shutdown request the run loop terminates: once is_running
\* is cleared on a started agent, run() eventually returns.
\* No cycle is started on the way, so at most the cycle in progress at the
\* request is finished.
C31_ShutdownTerminates ==
  /\ (pc # "init" /\ ~is_running) ~> (pc = "done")
  /\ [][ (pc # "init" /\ ~is_running) =>
           (cycles' = cycles /\ pc' \notin {"strategy", "review", "trade"})
     ]_vars

\* run() has returned after a shutdown requested during the wait that
\* followed the first cycle
C31_Witness ==
  /\ pc = "done" /\ ~is_running
  /\ cycles = 1 /\ today = 1 /\ research.calls = 1


\* what the open positions of a ledger cost: the sum of shares * avg_price
RECURSIVE CostBasis(_)
CostBasis(ps) ==
  IF ps = <<>> THEN 0
  ELSE Head(ps).shares * Head(ps).avg_price + CostBasis(Tail(ps))

\* C32: accounting conservation.  After any sequence of calls of open,
\* markToMarket, evaluateExit and close on a ledger whose store works, the
\* balance plus the cost of the open positions is the starting balance plus
\* the realized profit and loss.
C32_Conservation ==
  (pc = "ledger" /\ db[Strategy].tables) =>
    \E starting_capital \in LedgerBalances :
      pm[Strategy].account_balance + CostBasis(pm[Strategy].positions)
        = starting_capital + pm[Strategy].total_pnl

\* the records of one type that the trade log of s holds for sym
Records(s, sym, type) ==
  {i \in 1..Len(db[s].trades) :
     db[s].trades[i].symbol = sym /\ db[s].trades[i].type = type}

\* no open was made for a symbol while the ledger held a position of it: the
\* BUY records of a symbol exceed its SELL records by one when it is held
\* and by nothing when it is not
OpenedWhenAbsent(s) ==
  \A sym \in Symbols :
    Cardinality(Records(s, sym, "BUY")) - Cardinality(Records(s, sym, "SELL"))
      = IF has_position(pm[s].positions, sym) THEN 1 ELSE 0

\* the part of C32 that holds for the ledger called directly: the identity
\* after the sequences in which every open found its symbol absent
C32_ConservationOpenedWhenAbsent ==
  (pc = "ledger" /\ db[Strategy].tables /\ OpenedWhenAbsent(Strategy)) =>
    \E starting_capital \in LedgerBalances :
      pm[Strategy].account_balance + CostBasis(pm[Strategy].positions)
        = starting_capital + pm[Strategy].total_pnl

\* the part of C32 that holds: the same identity through a cycle of the
\* agent, which opens a position only for a symbol the strategy does not
\* hold
C32_ConservationInCycle ==
  pc = "cycle" =>
    \A s \in Strategies :
      pm[s].account_balance + CostBasis(pm[s].positions)
        = StrategyConfig[s].account_balance + pm[s].total_pnl

\* C33: through the cycles of the agent no strategy's account_balance ever
\* becomes negative: a position is opened only after admission found its
\* size within the balance, and it costs shares * price, which is at most
\* that size.
C33_CapitalNeverNegative ==
  /\ \A s \in Strategies : pm[s].account_balance >= 0
  /\ InTurn =>
       \A i \in 1..Len(Walked) :
         Walked[i].opened =>
           LET o == CHOOSE c \in Range(turn.ranking) :
                      c.symbol = Walked[i].symbol
           IN  /\ Walked[i].shares * o.current_price
                    <= calculate_position_size(TurnConfig, o)
               /\ calculate_position_size(TurnConfig, o) <= Walked[i].capital

\* a position was opened from a balance below the largest position size of
\* the strategy, which left less than 200.00
C33_Witness ==
  /\ InTurn
  /\ \E i \in 1..Len(Walked) :
       /\ Walked[i].opened
       /\ Walked[i].capital * 100 <
            TurnConfig.account_balance * TurnConfig.max_position_size
       /\ pm[turn.strategy].account_balance < 20000

\* C34: an open is all or nothing for the ledger in memory, also when the
\* write to the store fails: either the balance is debited, the position
\* created and trades_today incremented, or the ledger is as it was.
C34_OpenAllOrNothing ==
  [][ Opening =>
        \/ AccountAfter = Account
        \/ /\ AccountAfter.account_balance =
                Account.account_balance - call'.shares * call'.price
           /\ has_position(AccountAfter.positions, call'.symbol)
           /\ AccountAfter.trades_today = Account.trades_today + 1 ]_vars

\* C35: after a reset a strategy behaves as a freshly started one; in
\* particular every position opened in a cycle, the first one after a reset
\* included, has its BUY record in the trade log and is counted in
\* trades_today.
C35_OpenAfterResetRecorded ==
  InTurn =>
    /\ \A i \in 1..Len(Walked) :
         Walked[i].opened =>
           Records(turn.strategy, Walked[i].symbol, "BUY") # {}
    /\ pm[turn.strategy].trades_today >= Cardinality(Opened)

\* C36: only an actual open consumes the per-cycle trade quota: while a
\* strategy's candidates are walked, the number of trades counted as
\* executed equals the number of positions opened in that walk.
C36_QuotaCountsOpens ==
  (InTurn /\ pc = "trade") => trades_executed = Cardinality(Opened)

\* C37: markToMarket, evaluateExit and close called for a symbol the strategy
\* does not hold change nothing: balance, positions, realized and daily pnl,
\* trades_today and the trade log stay as they were, so a position cannot be
\* closed twice.
C37_AbsentSymbolNoOp ==
  [][ ( /\ pc = "ledger"
        /\ call'.n = call.n + 1
        /\ call'.op \in {"markToMarket", "evaluateExit", "close"}
        /\ ~has_position(pm[Strategy].positions, call'.symbol) )
      => (pm' = pm /\ db' = db) ]_vars

\* a second close of X, at another price than the one X was sold at: the
\* SELL record of the first close is still the last record of the log
C37_Witness ==
  /\ pc = "ledger"
  /\ call.op = "close"
  /\ call.symbol = "X"
  /\ db[Strategy].tables
  /\ Len(db[Strategy].trades) = 2
  /\ db[Strategy].trades[2].type = "SELL"
  /\ db[Strategy].trades[2].symbol = "X"
  /\ db[Strategy].trades[2].price # call.price
  /\ pm[Strategy].positions = <<>>

\* the strategies whose store was never removed by a reset
NeverReset == {s \in Loaded : db[s].tables}

\* the record of the log of s that tells what was last done with the symbol
\* of record i before record i (0 when there is none)
Previous(s, i) ==
  LET before == {j \in 1..(i - 1) :
                   db[s].trades[j].symbol = db[s].trades[i].symbol}
  IN  IF before = {} THEN 0
      ELSE CHOOSE j \in before : \A k \in before : k <= j

\* C38: for every strategy that was never reset, through any sequence of
\* cycles, the BUY records of its trade log exceed the SELL records by the
\* number of its open positions, and every SELL record of a symbol is
\* preceded by a BUY record of that symbol with the same share count (the
\* record of the open that the SELL closes).
C38_LogMatchesPositions ==
  \A s \in NeverReset :
    /\ Cardinality({i \in 1..Len(Log(s)) : Log(s)[i].type = "BUY"})
         - Cardinality({i \in 1..Len(Log(s)) : Log(s)[i].type = "SELL"})
           = Len(pm[s].positions)
    /\ \A i \in 1..Len(Log(s)) :
         Log(s)[i].type = "SELL" =>
           /\ Previous(s, i) # 0
           /\ Log(s)[Previous(s, i)].type = "BUY"
           /\ Log(s)[Previous(s, i)].shares = Log(s)[i].shares

\* a position was sold and another one bought afterwards, and is held
C38_Witness ==
  \E s \in NeverReset :
    /\ Len(Log(s)) = 3
    /\ Log(s)[2].type = "SELL"
    /\ Log(s)[3].type = "BUY"
    /\ Len(pm[s].positions) = 1

\* the step of the trade loop for an admitted candidate whose price is 0
\* leaves the ledger and the store as they are and stays in the loop, with
\* the candidates after it still to be walked
C39_NoLedgerChange ==
  [][ ( /\ pc = "trade" /\ ranked # <<>>
        /\ Head(ranked).current_price = 0
        /\ should_take_position(Head(ranked), pm[Strategy],
                                StrategyConfig[Strategy]) = "Accept" )
      => ( /\ pm' = pm /\ db' = db
           /\ trades_executed' = trades_executed
           /\ pc' = "trade" /\ ranked' = Tail(ranked) ) ]_vars

\* when the walk of a strategy in which an admitted candidate had price 0 is
\* over, every candidate of the ranking was walked, unless the trades
\* counted reached the quota
C39_RestProcessed ==
  ( /\ InTurn /\ WalkOver
    /\ \E i \in 1..Len(Walked) :
         Walked[i].decision = "Accept" /\ Walked[i].shares = None )
  => \/ Len(Walked) = Len(turn.ranking)
     \/ trades_executed >= max_trades(TurnConfig)

\* C39: an admitted candidate whose current_price is 0 results in no open
\* position and no ledger change, and the remaining ranked candidates of the
\* strategy are still processed in the same cycle.
C39_ZeroPriceSkipped == C39_NoLedgerChange /\ []C39_RestProcessed

\* the counts of the status snapshot that come from the ledger are the
\* ledger's: the number of open positions and trades_today
C40_LedgerCounts ==
  \A s \in Loaded :
    /\ get_status.strategies[s].positions_count = Len(pm[s].positions)
    /\ get_status.strategies[s].trades_today = pm[s].trades_today

\* C40: after a cycle completes, the status snapshot of every active
\* strategy reports as opportunities_count the number of candidates that the
\* discovery call of the cycle returned, and as positions_count and
\* trades_today the ledger's number of open positions and trades_today.
C40_StatusAfterCycle ==
  (pc = "wait" /\ cycles > 0) =>
    /\ \A s \in Loaded :
         get_status.strategies[s].opportunities_count = Len(opportunities)
    /\ C40_LedgerCounts

====
